---------------------------- MODULE Spec2Model ----------------------------
(***************************************************************************)
(* A model of the conversation-file batching and vector-store assembly     *)
(* pipeline of poc-azure-assistant (src/responses/*.ts).                   *)
(*                                                                         *)
(* Every async function of the pipeline is a frame on the call stack of    *)
(* the request (process) that runs it; one action is the code that runs    *)
(* between two awaits.  A callee hands its Result (or its rejection) to    *)
(* the frame below it.  Strings that the code takes apart (blob names,     *)
(* conversation ids, file names) are sequences of one-character strings.   *)
(***************************************************************************)
EXTENDS Integers, Sequences, FiniteSets, TLC

VARIABLES
    creds,          \* AZURE_STORAGE_ACCOUNT_NAME and _KEY are both set
    container,      \* the blob container: the set of blob names it holds
    scratchDirs,    \* directories under cwd/temp, as paths relative to it
    scratchFiles,   \* regular files under cwd/temp: path and the blob whose bytes it holds
    provFiles,      \* the provider's files, in creation order: id and content
    provStores,     \* the provider's vector stores, in creation order
    stack,          \* per process: the frames of its async calls, innermost last
    top,            \* per process: the core call it made, its arguments, result and trace
    runs,           \* the number of core calls made so far
    assistantCache, \* llmAssistant.ts: the module's Map from assistant name to id
    provAssistants, \* the provider's assistants, in creation order: id and name
    provRun,        \* the status the provider reports for the run being polled
    clock           \* Date.now(), in milliseconds since the model's start

vars == <<creds, container, scratchDirs, scratchFiles, provFiles, provStores,
          stack, top, runs, assistantCache, provAssistants, provRun, clock>>

---------------------------------------------------------------------------
(* Bounds of the model. *)

\* the longest fileIds a caller passes
MaxLen == 3
\* the file ids a caller can name are 1..MaxFileId
MaxFileId == 2
\* the largest batchSize a caller passes
MaxBatchSize == 3
\* the number of core calls made one after another on the storage side
MaxRuns == 2

\* batchSize: number = 20
DefaultBatchSize == 20

Procs == {1}

---------------------------------------------------------------------------
(* Results: src/responses/utils/result.ts.  A frame's `ret` also records a *)
(* rejected promise (kind "throw") and "no value yet" (kind "none").       *)

NoRet == [kind |-> "none", id |-> 0, ids |-> <<>>, e |-> ""]
okId(x) == [kind |-> "ok", id |-> x, ids |-> <<>>, e |-> ""]
okIds(s) == [kind |-> "ok", id |-> 0, ids |-> s, e |-> ""]
err(e) == [kind |-> "err", id |-> 0, ids |-> <<>>, e |-> e]
Thrown(e) == [kind |-> "throw", id |-> 0, ids |-> <<>>, e |-> e]

---------------------------------------------------------------------------
(* Metadata: Record<string, any> | undefined.  `has` is the set of keys of *)
(* the object; the value of a key that is not in `has` is kept at its zero.*)

NumKeys == {"createdAt", "batchNumber", "totalBatches", "batchSize", "tag"}
MetaKeys == NumKeys \cup {"conversationId"}

ZeroNum == [k \in NumKeys |-> 0]
UndefinedMeta == [def |-> FALSE, has |-> {}, num |-> ZeroNum, conversationId |-> <<>>]
EmptyMeta == [def |-> TRUE, has |-> {}, num |-> ZeroNum, conversationId |-> <<>>]

\* { ...m, k: x } for a numeric key; spreading undefined spreads nothing
WithNum(m, k, x) ==
    [m EXCEPT !.def = TRUE, !.has = @ \cup {k}, !.num[k] = x]

\* metadata || {}
OrEmpty(m) == IF m.def THEN m ELSE EmptyMeta

\* { ...m, conversationId: c }
WithConv(m, c) ==
    [m EXCEPT !.def = TRUE, !.has = @ \cup {"conversationId"}, !.conversationId = c]

\* what a caller passes as metadata
CallerMetas ==
    { UndefinedMeta,
      EmptyMeta,
      WithNum(EmptyMeta, "tag", 7),
      WithNum(WithNum(WithNum(WithNum(EmptyMeta, "tag", 7), "batchNumber", 9),
                      "totalBatches", 9), "batchSize", 9) }

\* what a caller of a conversation orchestrator passes as metadata: the above,
\* or an object that names a conversation and a creation time itself, with
\* or without the other keys
ConversationMetas ==
    CallerMetas \cup { WithNum(WithConv(m, <<"d">>), "createdAt", 9) :
                          m \in { EmptyMeta } \cup { c \in CallerMetas : "batchNumber" \in c.has } }

\* new Date().toISOString(), as the reading of a clock
Times == {1, 2}

---------------------------------------------------------------------------
(* Arguments. *)

SeqsUpTo(S, n) == UNION { [1..k -> S] : k \in 0..n }

\* fileIds: string[], possibly not passed at all
UndefinedIds == [def |-> FALSE, ids |-> <<>>]
FileIdArgs ==
    { UndefinedIds } \cup { [def |-> TRUE, ids |-> s] : s \in SeqsUpTo(1..MaxFileId, MaxLen) }

\* batchSize as passed: a number, or undefined
BatchSizeArgs ==
    { [def |-> FALSE, n |-> 0] } \cup { [def |-> TRUE, n |-> b] : b \in (-1)..MaxBatchSize }

---------------------------------------------------------------------------
(* Processes, frames and the trace of a core call. *)

Idle == [fn |-> "none", status |-> "idle", result |-> NoRet, log |-> <<>>]

Cur(p) == stack[p][Len(stack[p])]

At(p, fn, pc) ==
    /\ Len(stack[p]) > 0
    /\ Cur(p).fn = fn
    /\ Cur(p).pc = pc

\* the running frame goes on as f
Goto(p, f, lg) ==
    /\ stack' = [stack EXCEPT ![p] = [@ EXCEPT ![Len(@)] = f]]
    /\ top' = [top EXCEPT ![p].log = lg]

\* the running frame, now f, awaits the call of g
Await(p, f, g, lg) ==
    /\ stack' = [stack EXCEPT ![p] = Append([@ EXCEPT ![Len(@)] = f], g)]
    /\ top' = [top EXCEPT ![p].log = lg]

\* the running frame settles its promise with r: the frame below resumes with
\* r, or the core call is over
Settle(p, r, lg) ==
    LET s == stack[p]
        n == Len(s)
    IN  IF n = 1
        THEN /\ stack' = [stack EXCEPT ![p] = <<>>]
             /\ top' = [top EXCEPT ![p].status = IF r.kind = "throw" THEN "threw" ELSE "returned",
                                   ![p].result = r,
                                   ![p].log = lg]
        ELSE /\ stack' = [stack EXCEPT ![p] = Append(SubSeq(s, 1, n - 2), [s[n - 1] EXCEPT !.ret = r])]
             /\ top' = [top EXCEPT ![p].log = lg]

Log(p) == top[p].log

StorageUnchanged == UNCHANGED <<creds, container, scratchDirs, scratchFiles>>
ProviderUnchanged == UNCHANGED <<provFiles, provStores>>
AssistantUnchanged == UNCHANGED <<assistantCache, provAssistants, provRun, clock>>

\* the assistant side before any assistant call: nothing cached, no assistant
\* at the provider, no run
AssistantQuiet ==
    /\ assistantCache = {}
    /\ provAssistants = <<>>
    /\ provRun = "none"
    /\ clock = 0

---------------------------------------------------------------------------
(* Strings, as sequences of one-character strings. *)

StartsWith(s, pre) == Len(s) >= Len(pre) /\ SubSeq(s, 1, Len(pre)) = pre

\* the first place where t occurs in s, 0 when it does not occur
IndexOf(s, t) ==
    LET hits == { i \in 1..(Len(s) - Len(t) + 1) : SubSeq(s, i, i + Len(t) - 1) = t }
    IN  IF hits = {} THEN 0 ELSE CHOOSE i \in hits : \A j \in hits : i <= j

\* s.replace(t, r) with a string pattern: the first occurrence only
Replace(s, t, r) ==
    IF IndexOf(s, t) = 0
    THEN s
    ELSE SubSeq(s, 1, IndexOf(s, t) - 1) \o r \o SubSeq(s, IndexOf(s, t) + Len(t), Len(s))

\* the order of the characters the names are made of
Alphabet == <<"/", "a", "b", "c", "d">>
Rank(c) == CHOOSE i \in 1..Len(Alphabet) : Alphabet[i] = c

RECURSIVE LexLess(_, _)
LexLess(s, t) ==
    IF s = <<>> THEN t # <<>>
    ELSE IF t = <<>> THEN FALSE
    ELSE IF Head(s) = Head(t) THEN LexLess(Tail(s), Tail(t))
    ELSE Rank(Head(s)) < Rank(Head(t))

RECURSIVE Sorted(_)
Sorted(S) ==
    IF S = {}
    THEN <<>>
    ELSE LET m == CHOOSE x \in S : \A y \in S \ {x} : LexLess(x, y)
         IN  <<m>> \o Sorted(S \ {m})

---------------------------------------------------------------------------
(* The blob container.  Conversation "c" can hold a prefix-only marker, a  *)
(* blob "a" and a blob "a/b"; conversation "d" can hold a blob "a".        *)

Convs == { <<"c">>, <<"d">> }

BlobNames ==
    { <<"c", "/">>,
      <<"c", "/", "a">>,
      <<"c", "/", "a", "/", "b">>,
      <<"d", "/", "a">> }

\* the file names a caller of uploadFileFromStorage asks for
FileNames == { <<"a">>, <<"a", "/", "b">> }

\* `${conversationId}/`
Prefix(conversationId) == conversationId \o <<"/">>

\* containerClient.listBlobsFlat({ prefix }): the blobs under the prefix, by name
ListBlobsFlat(prefix) == Sorted({ n \in container : StartsWith(n, prefix) })

\* a stripping that keeps the prefix-only entries, as an empty name
FileListWithEmptyNames(conversationId) ==
    LET listed == ListBlobsFlat(Prefix(conversationId))
    IN  [k \in 1..Len(listed) |-> Replace(listed[k], Prefix(conversationId), <<>>)]

\* fileList: the listed names with the prefix taken out, the empty ones dropped
FileList(conversationId) ==
    LET listed == ListBlobsFlat(Prefix(conversationId))
        names == [k \in 1..Len(listed) |-> Replace(listed[k], Prefix(conversationId), <<>>)]
    IN  SelectSeq(names, LAMBDA n : n # <<>>)

---------------------------------------------------------------------------
(* The scratch directory cwd/temp.  A path is what follows "temp/"; the    *)
(* empty path is temp itself.                                              *)

Slashes(path) == { i \in 1..Len(path) : path[i] = "/" }

\* path.dirname
DirName(path) ==
    IF Slashes(path) = {}
    THEN <<>>
    ELSE SubSeq(path, 1, (CHOOSE i \in Slashes(path) : \A j \in Slashes(path) : j <= i) - 1)

\* a directory and the directories above it
Ancestors(dir) == { SubSeq(dir, 1, i - 1) : i \in Slashes(dir) } \cup { dir, <<>> }

IsFile(files, path) == \E f \in files : f.path = path
ContentAt(files, path) == (CHOOSE f \in files : f.path = path).content
WriteFile(files, path, content) ==
    { f \in files : f.path # path } \cup { [path |-> path, content |-> content] }
Unlink(files, path) == { f \in files : f.path # path }

\* fs.existsSync
existsSync(path) == path \in scratchDirs \/ IsFile(scratchFiles, path)

\* fs.mkdirSync(dir, { recursive: true }) throws when a regular file is in the way
MkdirFails(dir) == \E a \in Ancestors(dir) : IsFile(scratchFiles, a)

\* the bytes of a download that broke off
Partial == <<"?">>

---------------------------------------------------------------------------
(* uploadFileFromStorage: src/responses/uploadFileFromStorage.ts           *)

ufsFrame(conversationId, fileName) ==
    [fn |-> "uploadFileFromStorage", pc |-> "start",
     conversationId |-> conversationId, fileName |-> fileName, stream |-> <<>>]

\* `${conversationId}/${fileName}`
BlobPath(f) == f.conversationId \o <<"/">> \o f.fileName

\* a catch block that returns err(error) and leaves tempFilePath as it is
ufsCatchNoCleanup(p, e, files, lg) ==
    /\ scratchFiles' = files
    /\ Settle(p, err(e), lg)

\* the catch block, entered with the scratch files as the try block left them:
\* unlink tempFilePath if it exists, then return err(error).  unlinkSync of a
\* directory throws, and nothing catches that.
ufsCatch(p, e, files, lg) ==
    LET path == Cur(p).fileName
    IN  IF IsFile(files, path)
        THEN /\ scratchFiles' = Unlink(files, path)
             /\ Settle(p, err(e), lg)
        ELSE /\ scratchFiles' = files
             /\ IF path \in scratchDirs
                THEN Settle(p, Thrown("EISDIR: unlink"), lg)
                ELSE Settle(p, err(e), lg)

\* from the credentials check to the start of the download
uploadFileFromStorage_Stage(p) ==
    /\ At(p, "uploadFileFromStorage", "start")
    /\ AssistantUnchanged
    /\ UNCHANGED <<creds, container, runs>>
    /\ ProviderUnchanged
    /\ LET f == Cur(p)
           dir == DirName(f.fileName)
       IN  IF ~creds
           THEN /\ Settle(p, err("Missing Azure Storage credentials in environment variables"), Log(p))
                /\ UNCHANGED <<scratchDirs, scratchFiles>>
           ELSE IF existsSync(dir)
           THEN /\ Goto(p, [f EXCEPT !.pc = "downloadToFile"], Log(p))
                /\ UNCHANGED <<scratchDirs, scratchFiles>>
           ELSE IF MkdirFails(dir)
           THEN /\ ufsCatch(p, "mkdirSync failed", scratchFiles, Log(p))
                /\ UNCHANGED scratchDirs
           ELSE /\ scratchDirs' = scratchDirs \cup Ancestors(dir)
                /\ Goto(p, [f EXCEPT !.pc = "downloadToFile"], Log(p))
                /\ UNCHANGED scratchFiles

\* downloadToFile has the blob's response: it opens tempFilePath for writing,
\* which makes the file, or empties the one that is there
uploadFileFromStorage_Opened(p) ==
    /\ At(p, "uploadFileFromStorage", "downloadToFile")
    /\ AssistantUnchanged
    /\ UNCHANGED <<creds, container, scratchDirs, runs>>
    /\ ProviderUnchanged
    /\ LET f == Cur(p)
           path == f.fileName
           served == Append(Log(p), [ev |-> "blob served", blob |-> BlobPath(f)])
           failed(lg, e) == Append(lg, [ev |-> "downloadToFile", blob |-> BlobPath(f),
                                        ok |-> FALSE, e |-> e])
       IN  \/ /\ BlobPath(f) \in container
              /\ IF path \in scratchDirs \/ DirName(path) \notin scratchDirs
                 THEN \* the local file cannot be opened for writing
                      ufsCatch(p, "downloadToFile: cannot open the local file", scratchFiles,
                               failed(served, "downloadToFile: cannot open the local file"))
                 ELSE /\ scratchFiles' = WriteFile(scratchFiles, path, Partial)
                      /\ Goto(p, [f EXCEPT !.pc = "writing"], served)
           \/ \* not found, or the transport failed before a byte was written
              ufsCatch(p, "downloadToFile failed", scratchFiles,
                       failed(Log(p), "downloadToFile failed"))

\* what tempFilePath can hold once this download has written its last byte:
\* the blob, or a mix when another download wrote a whole blob to the same
\* path in the meantime
Written(f) ==
    IF ContentAt(scratchFiles, f.fileName) = Partial
    THEN { BlobPath(f) }
    ELSE { BlobPath(f), Partial }

\* await blobClient.downloadToFile(tempFilePath) is over.  A file that was
\* unlinked while it was written stays unlinked: the bytes went to no path.
uploadFileFromStorage_Downloaded(p) ==
    /\ At(p, "uploadFileFromStorage", "writing")
    /\ AssistantUnchanged
    /\ UNCHANGED <<creds, container, scratchDirs, runs>>
    /\ ProviderUnchanged
    /\ LET f == Cur(p)
           path == f.fileName
           done(ok, e) == Append(Log(p), [ev |-> "downloadToFile", blob |-> BlobPath(f),
                                          ok |-> ok, e |-> e])
       IN  \/ /\ IF IsFile(scratchFiles, path)
                 THEN \E content \in Written(f) :
                          scratchFiles' = WriteFile(scratchFiles, path, content)
                 ELSE UNCHANGED scratchFiles
              /\ Goto(p, [f EXCEPT !.pc = "files.create"], done(TRUE, ""))
           \/ \* the transport failed midway
              ufsCatch(p, "downloadToFile failed", scratchFiles,
                       done(FALSE, "downloadToFile failed"))

\* createReadStream(tempFilePath) opens the file when client.files.create
\* starts to read it
uploadFileFromStorage_Streaming(p) ==
    /\ At(p, "uploadFileFromStorage", "files.create")
    /\ AssistantUnchanged
    /\ UNCHANGED <<creds, container, scratchDirs, runs>>
    /\ ProviderUnchanged
    /\ LET f == Cur(p)
           path == f.fileName
       IN  IF ~IsFile(scratchFiles, path)
           THEN \* the read stream finds no file
                ufsCatch(p, "ENOENT: open", scratchFiles,
                         Append(Log(p), [ev |-> "files.create", content |-> <<>>,
                                         ok |-> FALSE, id |-> 0]))
           ELSE /\ Goto(p, [f EXCEPT !.pc = "uploading",
                                     !.stream = ContentAt(scratchFiles, path)],
                        Log(p))
                /\ UNCHANGED scratchFiles

\* the bytes the provider can have read from the stream: those the file held
\* when it was opened, or what a download to the same path made of it since
Sent(f) ==
    { f.stream } \cup
    ( IF /\ IsFile(scratchFiles, f.fileName)
         /\ ContentAt(scratchFiles, f.fileName) # f.stream
      THEN { ContentAt(scratchFiles, f.fileName), Partial }
      ELSE {} )

\* await client.files.create(...) is over; on success the scratch file is
\* unlinked, and an unlinkSync that throws lands in the catch block
uploadFileFromStorage_Uploaded(p) ==
    /\ At(p, "uploadFileFromStorage", "uploading")
    /\ AssistantUnchanged
    /\ UNCHANGED <<creds, container, scratchDirs, provStores, runs>>
    /\ LET f == Cur(p)
           path == f.fileName
           id == Len(provFiles) + 1
       IN  \E content \in Sent(f) :
               \/ /\ provFiles' = Append(provFiles, [id |-> id, content |-> content])
                  /\ LET created == Append(Log(p), [ev |-> "files.create", content |-> content,
                                                    ok |-> TRUE, id |-> id])
                     IN  IF IsFile(scratchFiles, path)
                         THEN /\ scratchFiles' = Unlink(scratchFiles, path)
                              /\ Settle(p, okId(id), created)
                         ELSE ufsCatch(p, "ENOENT: unlink", scratchFiles, created)
               \/ /\ UNCHANGED provFiles
                  /\ ufsCatch(p, "files.create failed", scratchFiles,
                              Append(Log(p), [ev |-> "files.create", content |-> content,
                                              ok |-> FALSE, id |-> 0]))

---------------------------------------------------------------------------
(* uploadAllFilesFromConversation:                                         *)
(* src/responses/uploadAllFilesFromConversation.ts                         *)

uafcFrame(conversationId) ==
    [fn |-> "uploadAllFilesFromConversation", pc |-> "start",
     conversationId |-> conversationId,
     fileList |-> <<>>, k |-> 1, fileIds |-> <<>>, failedFiles |-> <<>>, ret |-> NoRet]

\* a listing whose failure is swallowed: the loop goes on with what it has
uploadAllFilesFromConversation_ListLenient(p) ==
    /\ At(p, "uploadAllFilesFromConversation", "start")
    /\ AssistantUnchanged
    /\ UNCHANGED runs
    /\ StorageUnchanged
    /\ ProviderUnchanged
    /\ LET f == Cur(p)
           listed(ok) == Append(Log(p), [ev |-> "listBlobsFlat",
                                         prefix |-> Prefix(f.conversationId), ok |-> ok])
           fileList == FileList(f.conversationId)
       IN  \E ok \in BOOLEAN :
               IF fileList = <<>>
               THEN Settle(p, okIds(<<>>), listed(ok))
               ELSE Goto(p, [f EXCEPT !.pc = "loop", !.fileList = fileList], listed(ok))

\* from the credentials check to the end of the listing
uploadAllFilesFromConversation_List(p) ==
    /\ At(p, "uploadAllFilesFromConversation", "start")
    /\ AssistantUnchanged
    /\ UNCHANGED runs
    /\ StorageUnchanged
    /\ ProviderUnchanged
    /\ LET f == Cur(p)
           listed(ok) == Append(Log(p), [ev |-> "listBlobsFlat",
                                         prefix |-> Prefix(f.conversationId), ok |-> ok])
           fileList == FileList(f.conversationId)
       IN  IF ~creds
           THEN Settle(p, err("Missing Azure Storage credentials in environment variables"), Log(p))
           ELSE \/ \* the listing raises: the catch block
                   Settle(p, err("listBlobsFlat failed"), listed(FALSE))
                \/ IF fileList = <<>>
                   THEN Settle(p, okIds(<<>>), listed(TRUE))
                   ELSE Goto(p, [f EXCEPT !.pc = "loop", !.fileList = fileList], listed(TRUE))

\* a loop that walks the list from its end
uploadAllFilesFromConversation_UploadBackwards(p) ==
    /\ At(p, "uploadAllFilesFromConversation", "loop")
    /\ AssistantUnchanged
    /\ UNCHANGED runs
    /\ StorageUnchanged
    /\ ProviderUnchanged
    /\ LET f == Cur(p)
           fileName == f.fileList[Len(f.fileList) + 1 - f.k]
       IN  IF f.k <= Len(f.fileList)
           THEN Await(p, [f EXCEPT !.pc = "await"],
                      ufsFrame(f.conversationId, fileName),
                      Append(Log(p), [ev |-> "uploadFileFromStorage", fileName |-> fileName]))
           ELSE Settle(p, okIds(f.fileIds), Log(p))

\* the head of the loop over fileList, and the return after it
uploadAllFilesFromConversation_Upload(p) ==
    /\ At(p, "uploadAllFilesFromConversation", "loop")
    /\ AssistantUnchanged
    /\ UNCHANGED runs
    /\ StorageUnchanged
    /\ ProviderUnchanged
    /\ LET f == Cur(p)
           fileName == f.fileList[f.k]
       IN  IF f.k <= Len(f.fileList)
           THEN Await(p, [f EXCEPT !.pc = "await"],
                      ufsFrame(f.conversationId, fileName),
                      Append(Log(p), [ev |-> "uploadFileFromStorage", fileName |-> fileName]))
           ELSE Settle(p, okIds(f.fileIds), Log(p))

\* after the await of one upload; a rejected upload lands in the catch block
uploadAllFilesFromConversation_Result(p) ==
    /\ At(p, "uploadAllFilesFromConversation", "await")
    /\ AssistantUnchanged
    /\ UNCHANGED runs
    /\ StorageUnchanged
    /\ ProviderUnchanged
    /\ LET f == Cur(p)
           fileName == f.fileList[f.k]
           settled == Append(Log(p), [ev |-> "uploadFileFromStorage settled",
                                      fileName |-> fileName, kind |-> f.ret.kind,
                                      id |-> f.ret.id])
       IN  CASE f.ret.kind = "ok" ->
                    Goto(p, [f EXCEPT !.pc = "loop", !.k = @ + 1, !.ret = NoRet,
                                      !.fileIds = Append(@, f.ret.id)],
                         settled)
             [] f.ret.kind = "err" ->
                    Goto(p, [f EXCEPT !.pc = "loop", !.k = @ + 1, !.ret = NoRet,
                                      !.failedFiles = Append(@, fileName)],
                         settled)
             [] OTHER -> Settle(p, err(f.ret.e), settled)

---------------------------------------------------------------------------
(* createVectorStoreFromFiles: src/responses/createVectorStoreFromFiles.ts *)

cvsfFrame(fileIds, metadata) ==
    [fn |-> "createVectorStoreFromFiles", pc |-> "start",
     fileIds |-> fileIds, metadata |-> metadata]

\* a request that passes metadata on as it came, undefined included
StoreRequestRawMetadata(fileIds, metadata) ==
    [file_ids |-> fileIds.ids, metadata |-> metadata]

\* the body of client.vectorStores.create
StoreRequest(fileIds, metadata) ==
    [file_ids |-> fileIds.ids, metadata |-> OrEmpty(metadata)]

\* a guard that only asks whether fileIds was passed
NoFileIdsMissingOnly(fileIds) == ~fileIds.def

\* !fileIds || fileIds.length === 0
NoFileIds(fileIds) == ~fileIds.def \/ Len(fileIds.ids) = 0

createVectorStoreFromFiles(p) ==
    /\ At(p, "createVectorStoreFromFiles", "start")
    /\ AssistantUnchanged
    /\ UNCHANGED <<provFiles, runs>>
    /\ StorageUnchanged
    /\ LET f == Cur(p)
           req == StoreRequest(f.fileIds, f.metadata)
           id == Len(provStores) + 1
       IN  IF NoFileIds(f.fileIds)
           THEN /\ Settle(p, err("No file IDs provided for vector store creation"), Log(p))
                /\ UNCHANGED provStores
           ELSE \/ /\ provStores' = Append(provStores, [id |-> id] @@ req)
                   /\ Settle(p, okId(id),
                             Append(Log(p), [ev |-> "vectorStores.create", req |-> req,
                                             ok |-> TRUE, id |-> id]))
                \/ /\ UNCHANGED provStores
                   /\ Settle(p, err("vectorStores.create failed"),
                             Append(Log(p), [ev |-> "vectorStores.create", req |-> req,
                                             ok |-> FALSE, id |-> 0]))

---------------------------------------------------------------------------
(* createBatchedVectorStores: src/responses/createBatchedVectorStores.ts   *)

cbvsFrame(fileIds, batchSize, metadata) ==
    [fn |-> "createBatchedVectorStores", pc |-> "start",
     fileIds |-> fileIds,
     batchSize |-> IF batchSize.def THEN batchSize.n ELSE DefaultBatchSize,
     metadata |-> metadata,
     batches |-> <<>>, i |-> 0, vectorStoreIds |-> <<>>, ret |-> NoRet]

Min(a, b) == IF a < b THEN a ELSE b

\* a slice that takes the element at `to` as well
SliceInclusive(ids, from, to) == SubSeq(ids, from + 1, Min(to + 1, Len(ids)))

\* ids.slice(from, to) for 0 <= from <= to
Slice(ids, from, to) == SubSeq(ids, from + 1, Min(to, Len(ids)))

\* a split that only keeps whole batches: i + batchSize <= fileIds.length
RECURSIVE SplitWholeOnly(_, _, _, _)
SplitWholeOnly(ids, batchSize, i, batches) ==
    IF i + batchSize <= Len(ids)
    THEN SplitWholeOnly(ids, batchSize, i + batchSize,
                        Append(batches, SubSeq(ids, i + 1, Min(i + batchSize, Len(ids)))))
    ELSE batches

\* for (let i = 0; i < fileIds.length; i += batchSize) batches.push(fileIds.slice(i, i + batchSize))
RECURSIVE SplitFrom(_, _, _, _)
SplitFrom(ids, batchSize, i, batches) ==
    IF i < Len(ids)
    THEN SplitFrom(ids, batchSize, i + batchSize, Append(batches, Slice(ids, i, i + batchSize)))
    ELSE batches

Batches(ids, batchSize) == SplitFrom(ids, batchSize, 0, <<>>)

\* tags that number the batches from 0
BatchMetadataFromZero(metadata, i, batches) ==
    WithNum(WithNum(WithNum(metadata, "batchNumber", i),
                    "totalBatches", Len(batches)),
            "batchSize", Len(batches[i + 1]))

\* { ...metadata, batchNumber: i + 1, totalBatches: batches.length, batchSize: batch.length }
BatchMetadata(metadata, i, batches) ==
    WithNum(WithNum(WithNum(metadata, "batchNumber", i + 1),
                    "totalBatches", Len(batches)),
            "batchSize", Len(batches[i + 1]))

\* the guard, and the split into batches
createBatchedVectorStores_Split(p) ==
    /\ At(p, "createBatchedVectorStores", "start")
    /\ AssistantUnchanged
    /\ UNCHANGED runs
    /\ StorageUnchanged
    /\ ProviderUnchanged
    /\ LET f == Cur(p)
       IN  IF NoFileIds(f.fileIds)
           THEN Settle(p, err("No file IDs provided for batched vector store creation"), Log(p))
           ELSE /\ f.batchSize >= 1
                /\ Goto(p, [f EXCEPT !.pc = "loop",
                                     !.batches = Batches(f.fileIds.ids, f.batchSize)],
                        Log(p))

\* with batchSize <= 0 the index never passes fileIds.length: the split never ends
createBatchedVectorStores_SplitForever(p) ==
    /\ At(p, "createBatchedVectorStores", "start")
    /\ AssistantUnchanged
    /\ ~NoFileIds(Cur(p).fileIds)
    /\ Cur(p).batchSize <= 0
    /\ UNCHANGED runs
    /\ StorageUnchanged
    /\ ProviderUnchanged
    /\ Goto(p, [Cur(p) EXCEPT !.pc = "splitting"], Log(p))

\* the head of the loop over the batches, and the return after it
createBatchedVectorStores_Batch(p) ==
    /\ At(p, "createBatchedVectorStores", "loop")
    /\ AssistantUnchanged
    /\ UNCHANGED runs
    /\ StorageUnchanged
    /\ ProviderUnchanged
    /\ LET f == Cur(p)
       IN  IF f.i < Len(f.batches)
           THEN LET batch == [def |-> TRUE, ids |-> f.batches[f.i + 1]]
                    batchMetadata == BatchMetadata(f.metadata, f.i, f.batches)
                IN  Await(p, [f EXCEPT !.pc = "await"],
                          cvsfFrame(batch, batchMetadata),
                          Append(Log(p), [ev |-> "createVectorStoreFromFiles",
                                          fileIds |-> batch, metadata |-> batchMetadata]))
           ELSE Settle(p, okIds(f.vectorStoreIds), Log(p))

\* a loop that gives up at the first failed batch
createBatchedVectorStores_ResultAbort(p) ==
    /\ At(p, "createBatchedVectorStores", "await")
    /\ AssistantUnchanged
    /\ UNCHANGED runs
    /\ StorageUnchanged
    /\ ProviderUnchanged
    /\ LET f == Cur(p)
       IN  IF f.ret.kind = "ok"
           THEN Goto(p, [f EXCEPT !.pc = "loop", !.i = @ + 1, !.ret = NoRet,
                                  !.vectorStoreIds = Append(@, f.ret.id)],
                     Log(p))
           ELSE Settle(p, err(f.ret.e), Log(p))

\* a loop that leaves out the batch after a failed one
createBatchedVectorStores_ResultSkipNext(p) ==
    /\ At(p, "createBatchedVectorStores", "await")
    /\ AssistantUnchanged
    /\ UNCHANGED runs
    /\ StorageUnchanged
    /\ ProviderUnchanged
    /\ LET f == Cur(p)
       IN  IF f.ret.kind = "ok"
           THEN Goto(p, [f EXCEPT !.pc = "loop", !.i = @ + 1, !.ret = NoRet,
                                  !.vectorStoreIds = Append(@, f.ret.id)],
                     Log(p))
           ELSE Goto(p, [f EXCEPT !.pc = "loop", !.i = @ + 2, !.ret = NoRet], Log(p))

\* after the await of one batch's store
createBatchedVectorStores_Result(p) ==
    /\ At(p, "createBatchedVectorStores", "await")
    /\ AssistantUnchanged
    /\ UNCHANGED runs
    /\ StorageUnchanged
    /\ ProviderUnchanged
    /\ LET f == Cur(p)
       IN  CASE f.ret.kind = "err" ->
                    Goto(p, [f EXCEPT !.pc = "loop", !.i = @ + 1, !.ret = NoRet], Log(p))
             [] f.ret.kind = "ok" ->
                    Goto(p, [f EXCEPT !.pc = "loop", !.i = @ + 1, !.ret = NoRet,
                                      !.vectorStoreIds = Append(@, f.ret.id)],
                         Log(p))
             [] OTHER -> Settle(p, err(f.ret.e), Log(p))

---------------------------------------------------------------------------
(* createVectorStoreFromConversation:                                      *)
(* src/responses/createVectorStoreFromConversation.ts                      *)

cvsfcFrame(conversationId, metadata) ==
    [fn |-> "createVectorStoreFromConversation", pc |-> "start",
     conversationId |-> conversationId, metadata |-> metadata,
     fileIds |-> <<>>, ret |-> NoRet]

\* a default that stamps the caller's metadata as well
VectorMetadataStamped(metadata, conversationId, now) ==
    WithNum(WithConv(OrEmpty(metadata), conversationId), "createdAt", now)

\* metadata || { conversationId, createdAt: new Date().toISOString() }
VectorMetadata(metadata, conversationId, now) ==
    IF metadata.def
    THEN metadata
    ELSE WithNum(WithConv(EmptyMeta, conversationId), "createdAt", now)

\* the call of the aggregator
createVectorStoreFromConversation_Upload(p) ==
    /\ At(p, "createVectorStoreFromConversation", "start")
    /\ AssistantUnchanged
    /\ UNCHANGED runs
    /\ StorageUnchanged
    /\ ProviderUnchanged
    /\ LET f == Cur(p)
       IN  Await(p, [f EXCEPT !.pc = "uploaded"],
                 uafcFrame(f.conversationId),
                 Append(Log(p), [ev |-> "uploadAllFilesFromConversation",
                                 conversationId |-> f.conversationId]))

\* an orchestrator that hands an empty list on to the builder
createVectorStoreFromConversation_CreateAlways(p) ==
    /\ At(p, "createVectorStoreFromConversation", "uploaded")
    /\ AssistantUnchanged
    /\ UNCHANGED runs
    /\ StorageUnchanged
    /\ ProviderUnchanged
    /\ LET f == Cur(p)
           settled == Append(Log(p), [ev |-> "uploadAllFilesFromConversation settled",
                                      result |-> f.ret])
       IN  IF f.ret.kind = "ok"
           THEN \E now \in Times :
                    LET fileIds == [def |-> TRUE, ids |-> f.ret.ids]
                        vectorMetadata == VectorMetadata(f.metadata, f.conversationId, now)
                    IN  Await(p, [f EXCEPT !.pc = "created", !.ret = NoRet,
                                           !.fileIds = f.ret.ids],
                              cvsfFrame(fileIds, vectorMetadata),
                              Append(settled, [ev |-> "createVectorStoreFromFiles",
                                               fileIds |-> fileIds,
                                               metadata |-> vectorMetadata]))
           ELSE Settle(p, err(f.ret.e), settled)

\* after the aggregator: its error, "no files", or the call of the builder
createVectorStoreFromConversation_Create(p) ==
    /\ At(p, "createVectorStoreFromConversation", "uploaded")
    /\ AssistantUnchanged
    /\ UNCHANGED runs
    /\ StorageUnchanged
    /\ ProviderUnchanged
    /\ LET f == Cur(p)
           settled == Append(Log(p), [ev |-> "uploadAllFilesFromConversation settled",
                                      result |-> f.ret])
       IN  IF f.ret.kind = "ok"
           THEN IF Len(f.ret.ids) = 0
                THEN Settle(p, err("No files found in conversation to create vector store"),
                            settled)
                ELSE \E now \in Times :
                         LET fileIds == [def |-> TRUE, ids |-> f.ret.ids]
                             vectorMetadata == VectorMetadata(f.metadata, f.conversationId, now)
                         IN  Await(p, [f EXCEPT !.pc = "created", !.ret = NoRet,
                                                !.fileIds = f.ret.ids],
                                   cvsfFrame(fileIds, vectorMetadata),
                                   Append(settled, [ev |-> "createVectorStoreFromFiles",
                                                    fileIds |-> fileIds,
                                                    metadata |-> vectorMetadata]))
           ELSE \* the aggregator's error, or what it threw, caught
                Settle(p, err(f.ret.e), settled)

\* an orchestrator that puts its own message on the builder's failure
createVectorStoreFromConversation_ResultReworded(p) ==
    /\ At(p, "createVectorStoreFromConversation", "created")
    /\ AssistantUnchanged
    /\ UNCHANGED runs
    /\ StorageUnchanged
    /\ ProviderUnchanged
    /\ LET f == Cur(p)
           settled == Append(Log(p), [ev |-> "createVectorStoreFromFiles settled",
                                      result |-> f.ret])
       IN  IF f.ret.kind = "ok"
           THEN Settle(p, okId(f.ret.id), settled)
           ELSE Settle(p, err("Error creating vector store from conversation"), settled)

\* a tidy-up that takes the uploaded files back when the builder failed
createVectorStoreFromConversation_ResultRollback(p) ==
    /\ At(p, "createVectorStoreFromConversation", "created")
    /\ AssistantUnchanged
    /\ UNCHANGED <<provStores, runs>>
    /\ StorageUnchanged
    /\ LET f == Cur(p)
           settled == Append(Log(p), [ev |-> "createVectorStoreFromFiles settled",
                                      result |-> f.ret])
       IN  IF f.ret.kind = "ok"
           THEN /\ Settle(p, okId(f.ret.id), settled)
                /\ UNCHANGED provFiles
           ELSE /\ Settle(p, err(f.ret.e), settled)
                /\ provFiles' = <<>>

\* after the builder
createVectorStoreFromConversation_Result(p) ==
    /\ At(p, "createVectorStoreFromConversation", "created")
    /\ AssistantUnchanged
    /\ UNCHANGED runs
    /\ StorageUnchanged
    /\ ProviderUnchanged
    /\ LET f == Cur(p)
           settled == Append(Log(p), [ev |-> "createVectorStoreFromFiles settled",
                                      result |-> f.ret])
       IN  IF f.ret.kind = "ok"
           THEN Settle(p, okId(f.ret.id), settled)
           ELSE Settle(p, err(f.ret.e), settled)

---------------------------------------------------------------------------
(* createBatchedVectorStoresFromConversation:                              *)
(* src/responses/createBatchedVectorStoresFromConversation.ts              *)

cbvsfcFrame(conversationId, batchSize, metadata) ==
    [fn |-> "createBatchedVectorStoresFromConversation", pc |-> "start",
     conversationId |-> conversationId,
     batchSize |-> IF batchSize.def THEN batchSize.n ELSE DefaultBatchSize,
     metadata |-> metadata,
     fileIds |-> <<>>, ret |-> NoRet]

\* { conversationId, createdAt, ...(metadata || {}) }: the caller's keys last
BaseMetadataCallerLast(metadata, conversationId, now) ==
    IF metadata.def
    THEN [def |-> TRUE,
          has |-> metadata.has \cup {"conversationId", "createdAt"},
          num |-> [k \in NumKeys |->
                      IF k = "createdAt" /\ "createdAt" \notin metadata.has
                      THEN now
                      ELSE metadata.num[k]],
          conversationId |-> IF "conversationId" \in metadata.has
                             THEN metadata.conversationId
                             ELSE conversationId]
    ELSE WithNum(WithConv(EmptyMeta, conversationId), "createdAt", now)

\* { ...(metadata || {}), conversationId, createdAt: new Date().toISOString() }
BaseMetadata(metadata, conversationId, now) ==
    WithNum(WithConv(OrEmpty(metadata), conversationId), "createdAt", now)

\* the call of the aggregator
createBatchedVectorStoresFromConversation_Upload(p) ==
    /\ At(p, "createBatchedVectorStoresFromConversation", "start")
    /\ AssistantUnchanged
    /\ UNCHANGED runs
    /\ StorageUnchanged
    /\ ProviderUnchanged
    /\ LET f == Cur(p)
       IN  Await(p, [f EXCEPT !.pc = "uploaded"],
                 uafcFrame(f.conversationId),
                 Append(Log(p), [ev |-> "uploadAllFilesFromConversation",
                                 conversationId |-> f.conversationId]))

\* an orchestrator that hands an empty list on to the partitioner
createBatchedVectorStoresFromConversation_PartitionAlways(p) ==
    /\ At(p, "createBatchedVectorStoresFromConversation", "uploaded")
    /\ AssistantUnchanged
    /\ UNCHANGED runs
    /\ StorageUnchanged
    /\ ProviderUnchanged
    /\ LET f == Cur(p)
           settled == Append(Log(p), [ev |-> "uploadAllFilesFromConversation settled",
                                      result |-> f.ret])
       IN  IF f.ret.kind = "ok"
           THEN \E now \in Times :
                    LET fileIds == [def |-> TRUE, ids |-> f.ret.ids]
                        vectorMetadata == BaseMetadata(f.metadata, f.conversationId, now)
                    IN  Await(p, [f EXCEPT !.pc = "partitioned", !.ret = NoRet,
                                           !.fileIds = f.ret.ids],
                              cbvsFrame(fileIds, [def |-> TRUE, n |-> f.batchSize],
                                        vectorMetadata),
                              Append(settled, [ev |-> "createBatchedVectorStores",
                                               fileIds |-> fileIds,
                                               batchSize |-> f.batchSize,
                                               metadata |-> vectorMetadata]))
           ELSE Settle(p, err(f.ret.e), settled)

\* after the aggregator: its error, ok([]), or the call of the partitioner
createBatchedVectorStoresFromConversation_Partition(p) ==
    /\ At(p, "createBatchedVectorStoresFromConversation", "uploaded")
    /\ AssistantUnchanged
    /\ UNCHANGED runs
    /\ StorageUnchanged
    /\ ProviderUnchanged
    /\ LET f == Cur(p)
           settled == Append(Log(p), [ev |-> "uploadAllFilesFromConversation settled",
                                      result |-> f.ret])
       IN  IF f.ret.kind = "ok"
           THEN IF Len(f.ret.ids) = 0
                THEN Settle(p, okIds(<<>>), settled)
                ELSE \E now \in Times :
                         LET fileIds == [def |-> TRUE, ids |-> f.ret.ids]
                             vectorMetadata == BaseMetadata(f.metadata, f.conversationId, now)
                         IN  Await(p, [f EXCEPT !.pc = "partitioned", !.ret = NoRet,
                                                !.fileIds = f.ret.ids],
                                   cbvsFrame(fileIds, [def |-> TRUE, n |-> f.batchSize],
                                             vectorMetadata),
                                   Append(settled, [ev |-> "createBatchedVectorStores",
                                                    fileIds |-> fileIds,
                                                    batchSize |-> f.batchSize,
                                                    metadata |-> vectorMetadata]))
           ELSE \* the aggregator's error, or what it threw, caught
                Settle(p, err(f.ret.e), settled)

\* after the partitioner
createBatchedVectorStoresFromConversation_Result(p) ==
    /\ At(p, "createBatchedVectorStoresFromConversation", "partitioned")
    /\ AssistantUnchanged
    /\ UNCHANGED runs
    /\ StorageUnchanged
    /\ ProviderUnchanged
    /\ LET f == Cur(p)
           settled == Append(Log(p), [ev |-> "createBatchedVectorStores settled",
                                      result |-> f.ret])
       IN  IF f.ret.kind = "ok"
           THEN Settle(p, okIds(f.ret.ids), settled)
           ELSE Settle(p, err(f.ret.e), settled)

---------------------------------------------------------------------------
(* getVectorStoresForConversation:                                         *)
(* src/responses/getVectorStoresForConversation.ts                         *)

\* limit: 100
ListLimit == 100

gvsfcFrame(conversationId) ==
    [fn |-> "getVectorStoresForConversation", pc |-> "start",
     conversationId |-> conversationId]

Reverse(s) == [k \in 1..Len(s) |-> s[Len(s) + 1 - k]]

\* a listing that goes on through the further pages
ListEveryPage(limit) == Reverse(provStores)

\* client.vectorStores.list({ limit }): the first page of the provider's
\* listing, which gives the newest store first when no order is asked for
ListPage(limit) ==
    SubSeq(Reverse(provStores), 1, Min(limit, Len(provStores)))

\* a filter that only asks for the key
MatchesKeyOnly(store, conversationId) ==
    /\ store.metadata.def
    /\ "conversationId" \in store.metadata.has

\* store.metadata && typeof store.metadata === 'object' &&
\* 'conversationId' in store.metadata && store.metadata.conversationId === conversationId
Matches(store, conversationId) ==
    /\ store.metadata.def
    /\ "conversationId" \in store.metadata.has
    /\ store.metadata.conversationId = conversationId

getVectorStoresForConversation(p) ==
    /\ At(p, "getVectorStoresForConversation", "start")
    /\ AssistantUnchanged
    /\ UNCHANGED runs
    /\ StorageUnchanged
    /\ ProviderUnchanged
    /\ LET f == Cur(p)
           data == ListPage(ListLimit)
           conversationVectorStores == SelectSeq(data, LAMBDA store : Matches(store, f.conversationId))
           vectorStoreIds == [k \in 1..Len(conversationVectorStores) |->
                                 conversationVectorStores[k].id]
       IN  \/ Settle(p, okIds(vectorStoreIds),
                     Append(Log(p), [ev |-> "vectorStores.list", ok |-> TRUE, data |-> data]))
           \/ \* the listing raises: the catch block
              Settle(p, err("vectorStores.list failed"),
                     Append(Log(p), [ev |-> "vectorStores.list", ok |-> FALSE, data |-> <<>>]))

---------------------------------------------------------------------------
(* The core calls a caller makes. *)

Enter(p, fn, args, frame) ==
    /\ stack[p] = <<>>
    /\ stack' = [stack EXCEPT ![p] = <<frame>>]
    /\ top' = [top EXCEPT ![p] = [fn |-> fn, status |-> "running", args |-> args,
                                  result |-> NoRet, log |-> <<>>]]
    /\ runs' = runs + 1
    /\ StorageUnchanged
    /\ ProviderUnchanged
    /\ AssistantUnchanged

Call_createVectorStoreFromFiles(p) ==
    \E fileIds \in FileIdArgs, metadata \in CallerMetas :
        Enter(p, "createVectorStoreFromFiles",
              [fileIds |-> fileIds, metadata |-> metadata],
              cvsfFrame(fileIds, metadata))

Call_createBatchedVectorStores(p) ==
    \E fileIds \in FileIdArgs, batchSize \in BatchSizeArgs, metadata \in CallerMetas :
        Enter(p, "createBatchedVectorStores",
              [fileIds |-> fileIds, batchSize |-> batchSize, metadata |-> metadata],
              cbvsFrame(fileIds, batchSize, metadata))

Call_uploadFileFromStorage(p) ==
    \E conversationId \in Convs, fileName \in FileNames :
        Enter(p, "uploadFileFromStorage",
              [conversationId |-> conversationId, fileName |-> fileName],
              ufsFrame(conversationId, fileName))

Call_uploadAllFilesFromConversation(p) ==
    \E conversationId \in Convs :
        Enter(p, "uploadAllFilesFromConversation",
              [conversationId |-> conversationId],
              uafcFrame(conversationId))

Call_createVectorStoreFromConversation(p) ==
    \E conversationId \in Convs, metadata \in ConversationMetas :
        Enter(p, "createVectorStoreFromConversation",
              [conversationId |-> conversationId, metadata |-> metadata],
              cvsfcFrame(conversationId, metadata))

Call_createBatchedVectorStoresFromConversation(p) ==
    \E conversationId \in Convs, batchSize \in BatchSizeArgs, metadata \in ConversationMetas :
        Enter(p, "createBatchedVectorStoresFromConversation",
              [conversationId |-> conversationId, batchSize |-> batchSize,
               metadata |-> metadata],
              cbvsfcFrame(conversationId, batchSize, metadata))

Call_getVectorStoresForConversation(p) ==
    \E conversationId \in Convs :
        Enter(p, "getVectorStoresForConversation",
              [conversationId |-> conversationId],
              gvsfcFrame(conversationId))

---------------------------------------------------------------------------
(* The two batched HTTP endpoints of the server (part_004).  A handler is  *)
(* a frame like any other; what it settles with is the response it sends.  *)

\* res.status(status).json(...): the status, the vectorStoreIds and the message
Response(status, vectorStoreIds, message) ==
    [kind |-> "http", id |-> status, ids |-> vectorStoreIds, e |-> message]

\* a JSON value of the request body, or undefined for a key that is not there
Undefined == [type |-> "undefined", n |-> 0, s |-> <<>>]
Null == [type |-> "null", n |-> 0, s |-> <<>>]
Number(n) == [type |-> "number", n |-> n, s |-> <<>>]
String(s) == [type |-> "string", n |-> 0, s |-> s]

\* what a client sends as batchSize: nothing, null, an integer, or a string
BatchSizeBodies ==
    { Undefined, Null }
        \cup { Number(n) : n \in (-1)..MaxBatchSize }
        \cup { String(s) : s \in { <<>>, <<"0">>, <<"2">>, <<"-", "1">>, <<"x">>, <<"2", "x">> } }

\* the truthiness of a value
Truthy(v) ==
    CASE v.type = "number" -> v.n # 0
      [] v.type = "string" -> v.s # <<>>
      [] OTHER -> FALSE

Digits == <<"0", "1", "2", "3", "4", "5", "6", "7", "8", "9">>
IsDigit(c) == \E d \in 1..Len(Digits) : Digits[d] = c
DigitValue(c) == (CHOOSE d \in 1..Len(Digits) : Digits[d] = c) - 1

\* the digits s starts with
RECURSIVE LeadingDigits(_)
LeadingDigits(s) ==
    IF s # <<>> /\ IsDigit(Head(s))
    THEN <<Head(s)>> \o LeadingDigits(Tail(s))
    ELSE <<>>

RECURSIVE DecimalValue(_, _)
DecimalValue(digits, acc) ==
    IF digits = <<>>
    THEN acc
    ELSE DecimalValue(Tail(digits), 10 * acc + DigitValue(Head(digits)))

NaN == [nan |-> TRUE, n |-> 0]
Num(n) == [nan |-> FALSE, n |-> n]

\* parseInt of a string: an optional sign, then the digits up to the first
\* character that is none; NaN when there is no digit
ParseIntOfString(s) ==
    LET negative == s # <<>> /\ Head(s) = "-"
        rest == IF s # <<>> /\ Head(s) \in {"-", "+"} THEN Tail(s) ELSE s
        digits == LeadingDigits(rest)
    IN  IF digits = <<>>
        THEN NaN
        ELSE Num(IF negative THEN 0 - DecimalValue(digits, 0) ELSE DecimalValue(digits, 0))

\* parseInt(v): v is turned into a string first; an integer reads back as itself
parseInt(v) ==
    CASE v.type = "number" -> Num(v.n)
      [] v.type = "string" -> ParseIntOfString(v.s)
      [] OTHER -> NaN

\* batchSize ? parseInt(batchSize) : 20
ParsedBatchSize(batchSize) ==
    IF Truthy(batchSize) THEN parseInt(batchSize) ELSE Num(DefaultBatchSize)

\* isNaN(parsedBatchSize) || parsedBatchSize <= 0
BadBatchSize(parsed) == parsed.nan \/ parsed.n <= 0

BatchSizeMessage == "The \"batchSize\" must be a positive number"

postFrame(fn, body) == [fn |-> fn, pc |-> "start", body |-> body, ret |-> NoRet]

\* POST /api/vector-store/create-batched, up to the call of the service
PostCreateBatched(p) ==
    /\ At(p, "POST /api/vector-store/create-batched", "start")
    /\ AssistantUnchanged
    /\ UNCHANGED runs
    /\ StorageUnchanged
    /\ ProviderUnchanged
    /\ LET f == Cur(p)
           fileIds == f.body.fileIds
           parsedBatchSize == ParsedBatchSize(f.body.batchSize)
       IN  IF ~fileIds.def \/ Len(fileIds.ids) = 0
           THEN Settle(p, Response(400, <<>>,
                                   "The request must include a non-empty \"fileIds\" array"),
                       Log(p))
           ELSE IF BadBatchSize(parsedBatchSize)
           THEN Settle(p, Response(400, <<>>, BatchSizeMessage), Log(p))
           ELSE Await(p, [f EXCEPT !.pc = "called"],
                      cbvsFrame(fileIds, [def |-> TRUE, n |-> parsedBatchSize.n],
                                f.body.metadata),
                      Append(Log(p), [ev |-> "createBatchedVectorStores",
                                      fileIds |-> fileIds,
                                      batchSize |-> parsedBatchSize.n,
                                      metadata |-> f.body.metadata]))

\* POST /api/vector-store/create-batched-from-conversation/:conversationId,
\* up to the call of the service
PostCreateBatchedFromConversation(p) ==
    /\ At(p, "POST /api/vector-store/create-batched-from-conversation", "start")
    /\ AssistantUnchanged
    /\ UNCHANGED runs
    /\ StorageUnchanged
    /\ ProviderUnchanged
    /\ LET f == Cur(p)
           conversationId == f.body.conversationId
           parsedBatchSize == ParsedBatchSize(f.body.batchSize)
       IN  IF conversationId = <<>>
           THEN Settle(p, Response(400, <<>>,
                                   "The request must include a conversationId parameter"),
                       Log(p))
           ELSE IF BadBatchSize(parsedBatchSize)
           THEN Settle(p, Response(400, <<>>, BatchSizeMessage), Log(p))
           ELSE Await(p, [f EXCEPT !.pc = "called"],
                      cbvsfcFrame(conversationId, [def |-> TRUE, n |-> parsedBatchSize.n],
                                  f.body.metadata),
                      Append(Log(p), [ev |-> "createBatchedVectorStoresFromConversation",
                                      conversationId |-> conversationId,
                                      batchSize |-> parsedBatchSize.n,
                                      metadata |-> f.body.metadata]))

BatchedEndpoints ==
    { "POST /api/vector-store/create-batched",
      "POST /api/vector-store/create-batched-from-conversation" }

\* the response of either endpoint once the service has answered: 200 with
\* the ids, 500 with the error's message, 500 from the catch block
PostResponse(p) ==
    /\ Len(stack[p]) > 0
    /\ Cur(p).fn \in BatchedEndpoints
    /\ Cur(p).pc = "called"
    /\ AssistantUnchanged
    /\ UNCHANGED runs
    /\ StorageUnchanged
    /\ ProviderUnchanged
    /\ LET result == Cur(p).ret
       IN  CASE result.kind = "ok" -> Settle(p, Response(200, result.ids, ""), Log(p))
             [] result.kind = "err" -> Settle(p, Response(500, <<>>, result.e), Log(p))
             [] OTHER -> Settle(p, Response(500, <<>>, result.e), Log(p))

\* what a client sends as metadata
MetadataBodies == { UndefinedMeta, WithNum(EmptyMeta, "tag", 7) }

Call_PostCreateBatched(p) ==
    \E fileIds \in FileIdArgs, batchSize \in BatchSizeBodies, metadata \in MetadataBodies :
        LET body == [fileIds |-> fileIds, batchSize |-> batchSize, metadata |-> metadata]
        IN  Enter(p, "POST /api/vector-store/create-batched", body,
                  postFrame("POST /api/vector-store/create-batched", body))

Call_PostCreateBatchedFromConversation(p) ==
    \E conversationId \in Convs, batchSize \in BatchSizeBodies, metadata \in MetadataBodies :
        LET body == [conversationId |-> conversationId, batchSize |-> batchSize,
                     metadata |-> metadata]
        IN  Enter(p, "POST /api/vector-store/create-batched-from-conversation", body,
                  postFrame("POST /api/vector-store/create-batched-from-conversation", body))

\* one request to either endpoint; the container is that of SpecConversation.
\* No request gets a batchSize below 1 past the handler, so the split that
\* never ends is not among the steps.
InitServer ==
    /\ creds = TRUE
    /\ container = BlobNames \ { <<"d", "/", "a">> }
    /\ scratchDirs = {}
    /\ scratchFiles = {}
    /\ provFiles = <<>>
    /\ provStores = <<>>
    /\ stack = [p \in Procs |-> <<>>]
    /\ top = [p \in Procs |-> Idle]
    /\ runs = 0
    /\ AssistantQuiet

NextServer ==
    \E p \in Procs :
        \/ /\ runs = 0
           /\ Call_PostCreateBatched(p)
        \/ /\ runs = 0
           /\ Call_PostCreateBatchedFromConversation(p)
        \/ PostCreateBatched(p)
        \/ PostCreateBatchedFromConversation(p)
        \/ PostResponse(p)
        \/ createBatchedVectorStoresFromConversation_Upload(p)
        \/ createBatchedVectorStoresFromConversation_Partition(p)
        \/ createBatchedVectorStoresFromConversation_Result(p)
        \/ uploadAllFilesFromConversation_List(p)
        \/ uploadAllFilesFromConversation_Upload(p)
        \/ uploadAllFilesFromConversation_Result(p)
        \/ uploadFileFromStorage_Stage(p)
        \/ uploadFileFromStorage_Opened(p)
        \/ uploadFileFromStorage_Downloaded(p)
        \/ uploadFileFromStorage_Streaming(p)
        \/ uploadFileFromStorage_Uploaded(p)
        \/ createVectorStoreFromFiles(p)
        \/ createBatchedVectorStores_Split(p)
        \/ createBatchedVectorStores_Batch(p)
        \/ createBatchedVectorStores_Result(p)

SpecServer == InitServer /\ [][NextServer]_vars

---------------------------------------------------------------------------
(* getOrCreateAssistant: src/llmAssistant.ts.  assistantCache is the       *)
(* module's Map, here the set of its entries, one for a name at most.      *)

AssistantListLimit == 100

goaFrame(name, instructions, fileIds) ==
    [fn |-> "getOrCreateAssistant", pc |-> "start",
     name |-> name, instructions |-> instructions, fileIds |-> fileIds]

\* assistantCache.has(name), assistantCache.get(name)
CacheHas(name) == \E entry \in assistantCache : entry.name = name
CacheGet(name) == (CHOOSE entry \in assistantCache : entry.name = name).id

\* assistantCache.set(name, id): the entry of the name is put, or replaced
CacheSet(name, id) ==
    { entry \in assistantCache : entry.name # name } \cup { [name |-> name, id |-> id] }

\* openai.beta.assistants.list({ limit }): the first page, newest first
ListAssistants(limit) ==
    SubSeq(Reverse(provAssistants), 1, Min(limit, Len(provAssistants)))

\* assistants.data.find(assistant => assistant.name === name): the place of
\* the first such assistant in the listing, 0 when there is none
FindByName(data, name) ==
    LET hits == { k \in 1..Len(data) : data[k].name = name }
    IN  IF hits = {} THEN 0 ELSE CHOOSE k \in hits : \A j \in hits : k <= j

\* createParams: tools and file_ids only when there are files to attach
CreateParams(name, instructions, fileIds) ==
    [name |-> name,
     instructions |-> instructions,
     tools |-> IF fileIds.def /\ Len(fileIds.ids) > 0 THEN <<"retrieval">> ELSE <<>>,
     file_ids |-> IF fileIds.def /\ Len(fileIds.ids) > 0 THEN fileIds.ids ELSE <<>>]

\* the look into the cache, and the request of the listing
getOrCreateAssistant_Cache(p) ==
    /\ At(p, "getOrCreateAssistant", "start")
    /\ UNCHANGED runs
    /\ StorageUnchanged
    /\ ProviderUnchanged
    /\ AssistantUnchanged
    /\ LET f == Cur(p)
       IN  IF CacheHas(f.name)
           THEN Settle(p, okId(CacheGet(f.name)), Log(p))
           ELSE Goto(p, [f EXCEPT !.pc = "assistants.list"], Log(p))

\* the listing is here: the assistant found is cached and returned, or the
\* creation is requested
getOrCreateAssistant_Listed(p) ==
    /\ At(p, "getOrCreateAssistant", "assistants.list")
    /\ UNCHANGED <<runs, provAssistants, provRun, clock>>
    /\ StorageUnchanged
    /\ ProviderUnchanged
    /\ LET f == Cur(p)
           data == ListAssistants(AssistantListLimit)
           found == FindByName(data, f.name)
           listed == Append(Log(p), [ev |-> "assistants.list", ok |-> TRUE, data |-> data])
       IN  \/ IF found # 0
              THEN /\ assistantCache' = CacheSet(f.name, data[found].id)
                   /\ Settle(p, okId(data[found].id), listed)
              ELSE /\ UNCHANGED assistantCache
                   /\ Goto(p, [f EXCEPT !.pc = "assistants.create"], listed)
           \/ \* the listing raises: the catch block
              /\ UNCHANGED assistantCache
              /\ Settle(p, err("ASSISTANT_ERROR"),
                        Append(Log(p), [ev |-> "assistants.list", ok |-> FALSE, data |-> <<>>]))

\* the creation is answered: the new assistant is cached and returned
getOrCreateAssistant_Created(p) ==
    /\ At(p, "getOrCreateAssistant", "assistants.create")
    /\ UNCHANGED <<runs, provRun, clock>>
    /\ StorageUnchanged
    /\ ProviderUnchanged
    /\ LET f == Cur(p)
           createParams == CreateParams(f.name, f.instructions, f.fileIds)
           id == Len(provAssistants) + 1
       IN  \/ /\ provAssistants' = Append(provAssistants, [id |-> id] @@ createParams)
              /\ assistantCache' = CacheSet(f.name, id)
              /\ Settle(p, okId(id),
                        Append(Log(p), [ev |-> "assistants.create", ok |-> TRUE, id |-> id,
                                        params |-> createParams]))
           \/ \* the creation raises (the catch block), or answers without an id
              /\ UNCHANGED <<provAssistants, assistantCache>>
              /\ Settle(p, err("ASSISTANT_ERROR"),
                        Append(Log(p), [ev |-> "assistants.create", ok |-> FALSE, id |-> 0,
                                        params |-> createParams]))

AssistantNames == { "docs", "chat" }

\* instructions and fileIds, as a caller passes them together
AssistantSetups ==
    { [instructions |-> "answer", fileIds |-> UndefinedIds],
      [instructions |-> "search", fileIds |-> [def |-> TRUE, ids |-> <<1>>]] }

Call_getOrCreateAssistant(p) ==
    \E name \in AssistantNames, setup \in AssistantSetups :
        Enter(p, "getOrCreateAssistant",
              [name |-> name, instructions |-> setup.instructions, fileIds |-> setup.fileIds],
              goaFrame(name, setup.instructions, setup.fileIds))

\* Three callers of one client, one call each.  Callers 1 and 2 call when
\* they like, so their calls overlap in every way; caller 3 calls once the
\* call of caller 1 is over.  The provider holds no assistant at the start,
\* or one named "docs".
Callers == {1, 2, 3}

InitAssistants ==
    /\ creds = TRUE
    /\ container = {}
    /\ scratchDirs = {}
    /\ scratchFiles = {}
    /\ provFiles = <<>>
    /\ provStores = <<>>
    /\ stack = [p \in Callers |-> <<>>]
    /\ top = [p \in Callers |-> Idle]
    /\ runs = 0
    /\ assistantCache = {}
    /\ provAssistants \in { <<>>,
                            << [id |-> 1] @@ CreateParams("docs", "answer", UndefinedIds) >> }
    /\ provRun = "none"
    /\ clock = 0

NextAssistants ==
    \E p \in Callers :
        \/ /\ top[p].status = "idle"
           /\ p = 3 => top[1].status = "returned"
           /\ Call_getOrCreateAssistant(p)
        \/ getOrCreateAssistant_Cache(p)
        \/ getOrCreateAssistant_Listed(p)
        \/ getOrCreateAssistant_Created(p)

SpecAssistants == InitAssistants /\ [][NextAssistants]_vars

---------------------------------------------------------------------------
(* runAssistant: src/llmAssistant.ts.  provRun is the status of the run at *)
(* the provider, which moves on its own; clock is Date.now().              *)

\* the statuses a run can have at the provider
RunStatuses ==
    { "queued", "in_progress", "requires_action", "cancelling",
      "completed", "failed", "cancelled", "expired", "incomplete" }

\* the statuses a run moves on from
RunMoving == { "queued", "in_progress", "requires_action", "cancelling" }

\* the provider works on the run
RunMoves ==
    /\ provRun \in RunMoving
    /\ \E status \in RunStatuses \ {provRun} : provRun' = status
    /\ UNCHANGED <<stack, top, runs, assistantCache, provAssistants, clock>>
    /\ StorageUnchanged
    /\ ProviderUnchanged

\* 3 * 60 * 1000
DefaultTimeout == 180000

\* the grain of the clock, and the setTimeout of the loop
TickMs == 1000
PollMs == 1000

\* settings?.timeout of the client: not set, or a number of milliseconds
TimeoutSettings ==
    { [def |-> FALSE, n |-> 0], [def |-> TRUE, n |-> 0], [def |-> TRUE, n |-> 2000] }

\* settings?.timeout ?? defaultTimeout
MaxWaitTime(timeout) == IF timeout.def THEN timeout.n ELSE DefaultTimeout

raFrame(timeout) ==
    [fn |-> "runAssistant", pc |-> "runs.create", timeout |-> timeout,
     runStatus |-> "none", startTime |-> 0, wake |-> 0]

\* ok(true)
okTrue == [kind |-> "ok", id |-> 0, ids |-> <<>>, e |-> "true"]

\* a loop that goes on until the run is over
PollingUntilOver(status) == status \notin {"completed", "failed", "cancelled", "expired"}

\* ["queued", "in_progress", "requires_action"].includes(runStatus.status)
Polling(status) == status \in {"queued", "in_progress", "requires_action"}

\* what the call ends with, and the values of its variables at that moment
raSettled(p, result, status, raised) ==
    Settle(p, result,
           Append(Log(p), [ev |-> "runAssistant settled", status |-> status,
                           raised |-> raised, now |-> clock,
                           startTime |-> Cur(p).startTime,
                           maxWaitTime |-> MaxWaitTime(Cur(p).timeout)]))

\* runs.create is answered: the run is there and the first retrieve is asked
\* for, or there is no run id, or the request raised
runAssistant_Created(p) ==
    /\ At(p, "runAssistant", "runs.create")
    /\ UNCHANGED <<runs, assistantCache, provAssistants, clock>>
    /\ StorageUnchanged
    /\ ProviderUnchanged
    /\ \/ /\ provRun' = "queued"
          /\ Goto(p, [Cur(p) EXCEPT !.pc = "first retrieve"],
                  Append(Log(p), [ev |-> "runs.create", ok |-> TRUE]))
       \/ /\ UNCHANGED provRun
          /\ raSettled(p, err("ASSISTANT_ERROR"), "none", TRUE)

\* the head of the loop with the status just retrieved, and what follows the
\* loop: TIMEOUT, the next sleep, ASSISTANT_ERROR or true
raLoop(p, f, status) ==
    IF Polling(status)
    THEN IF clock - f.startTime > MaxWaitTime(f.timeout)
         THEN raSettled(p, err("TIMEOUT"), status, FALSE)
         ELSE Goto(p, [f EXCEPT !.pc = "sleeping", !.runStatus = status,
                                !.wake = clock + PollMs],
                   Log(p))
    ELSE IF status # "completed"
         THEN raSettled(p, err("ASSISTANT_ERROR"), status, FALSE)
         ELSE raSettled(p, okTrue, status, FALSE)

\* a retrieve is answered, the first one or one of the loop, or it raised
runAssistant_Retrieved(p) ==
    /\ Len(stack[p]) > 0
    /\ Cur(p).fn = "runAssistant"
    /\ Cur(p).pc \in {"first retrieve", "runs.retrieve"}
    /\ UNCHANGED runs
    /\ StorageUnchanged
    /\ ProviderUnchanged
    /\ AssistantUnchanged
    /\ LET f == Cur(p)
           started == IF f.pc = "first retrieve" THEN [f EXCEPT !.startTime = clock] ELSE f
       IN  \/ raLoop(p, started, provRun)
           \/ raSettled(p, err("ASSISTANT_ERROR"), f.runStatus, TRUE)

\* the timer of the loop has fired: the next retrieve is asked for
runAssistant_Slept(p) ==
    /\ At(p, "runAssistant", "sleeping")
    /\ clock >= Cur(p).wake
    /\ UNCHANGED runs
    /\ StorageUnchanged
    /\ ProviderUnchanged
    /\ AssistantUnchanged
    /\ Goto(p, [Cur(p) EXCEPT !.pc = "runs.retrieve"], Log(p))

\* time passes while a call is in its loop: the timer fires when it is due,
\* and a retrieve takes one tick at most
Tick ==
    /\ \E p \in DOMAIN stack :
           /\ Len(stack[p]) > 0
           /\ Cur(p).fn = "runAssistant"
           /\ \/ Cur(p).pc = "sleeping" /\ clock < Cur(p).wake
              \/ Cur(p).pc = "runs.retrieve" /\ clock < Cur(p).wake + TickMs
    /\ clock' = clock + TickMs
    /\ UNCHANGED <<stack, top, runs, assistantCache, provAssistants, provRun>>
    /\ StorageUnchanged
    /\ ProviderUnchanged

Call_runAssistant(p) ==
    \E timeout \in TimeoutSettings :
        Enter(p, "runAssistant", [timeout |-> timeout], raFrame(timeout))

\* one call of runAssistant, at one of two readings of the clock
InitRun ==
    /\ creds = TRUE
    /\ container = {}
    /\ scratchDirs = {}
    /\ scratchFiles = {}
    /\ provFiles = <<>>
    /\ provStores = <<>>
    /\ stack = [p \in Procs |-> <<>>]
    /\ top = [p \in Procs |-> Idle]
    /\ runs = 0
    /\ assistantCache = {}
    /\ provAssistants = <<>>
    /\ provRun = "none"
    /\ clock \in {0, 7000}

NextRun ==
    \/ \E p \in Procs :
           \/ /\ runs = 0
              /\ Call_runAssistant(p)
           \/ runAssistant_Created(p)
           \/ runAssistant_Retrieved(p)
           \/ runAssistant_Slept(p)
    \/ RunMoves
    \/ Tick

SpecRun == InitRun /\ [][NextRun]_vars

---------------------------------------------------------------------------
(* getAssistantResponse of the assistant client: src/llmAssistant.ts (an   *)
(* older copy is in src/responses/createBatchedVectorStores.ts).  Waits    *)
(* are in microseconds, so that the growth by half stays whole.            *)

\* let waitTime = 1000, const maxWaitTime = 10000
FirstWait == 1000000
LongestWait == 10000000

\* Math.min(waitTime * 1.5, maxWaitTime)
NextWait(waitTime) == Min((waitTime * 3) \div 2, LongestWait)

garFrame(message) ==
    [fn |-> "getAssistantResponse", pc |-> "start", message |-> message,
     runStatus |-> "none", waitTime |-> FirstWait]

\* return { response, threadId }
okResponse(text) == [kind |-> "ok", id |-> 0, ids |-> <<>>, e |-> text]

\* a loop that goes on while the provider still works on the run
WaitingWhileMoving(status) == status \in RunMoving

\* runStatus.status !== "completed" && !== "failed" && !== "cancelled" && !== "expired"
Waiting(status) == status \notin {"completed", "failed", "cancelled", "expired"}

\* what the call ends with, and the values of its variables at that moment;
\* the catch block logs what was thrown and throws it again
garSettled(p, result, raised) ==
    Settle(p, result,
           Append(Log(p), [ev |-> "getAssistantResponse settled",
                           status |-> Cur(p).runStatus, raised |-> raised,
                           waitTime |-> Cur(p).waitTime]))

\* the check of the message, and the request for the thread
getAssistantResponse_Start(p) ==
    /\ At(p, "getAssistantResponse", "start")
    /\ UNCHANGED runs
    /\ StorageUnchanged
    /\ ProviderUnchanged
    /\ AssistantUnchanged
    /\ IF Cur(p).message = ""
       THEN garSettled(p, Thrown("Message cannot be empty"), FALSE)
       ELSE Goto(p, [Cur(p) EXCEPT !.pc = "preparing"], Log(p))

\* the thread is there, the message is added and the run is created, and the
\* first retrieve is asked for; or one of these requests raised
getAssistantResponse_Prepared(p) ==
    /\ At(p, "getAssistantResponse", "preparing")
    /\ UNCHANGED <<runs, assistantCache, provAssistants, clock>>
    /\ StorageUnchanged
    /\ ProviderUnchanged
    /\ \/ /\ provRun' = "queued"
          /\ Goto(p, [Cur(p) EXCEPT !.pc = "runs.retrieve"], Log(p))
       \/ /\ UNCHANGED provRun
          /\ garSettled(p, Thrown("request failed"), TRUE)

\* a retrieve is answered, the first one or one of the loop: the next sleep,
\* the throw for a run that did not complete, or the request for the
\* messages; or the retrieve raised
getAssistantResponse_Retrieved(p) ==
    /\ At(p, "getAssistantResponse", "runs.retrieve")
    /\ UNCHANGED runs
    /\ StorageUnchanged
    /\ ProviderUnchanged
    /\ AssistantUnchanged
    /\ LET f == [Cur(p) EXCEPT !.runStatus = provRun]
       IN  \/ IF Waiting(f.runStatus)
              THEN Goto(p, [f EXCEPT !.pc = "sleeping"], Log(p))
              ELSE IF f.runStatus # "completed"
              THEN Settle(p, Thrown("Assistant run failed with status"),
                          Append(Log(p), [ev |-> "getAssistantResponse settled",
                                          status |-> f.runStatus, raised |-> FALSE,
                                          waitTime |-> f.waitTime]))
              ELSE Goto(p, [f EXCEPT !.pc = "messages.list"], Log(p))
           \/ garSettled(p, Thrown("request failed"), TRUE)

\* the timer of the loop has fired: the wait grows and the next retrieve is
\* asked for
getAssistantResponse_Slept(p) ==
    /\ At(p, "getAssistantResponse", "sleeping")
    /\ UNCHANGED runs
    /\ StorageUnchanged
    /\ ProviderUnchanged
    /\ AssistantUnchanged
    /\ Goto(p, [Cur(p) EXCEPT !.pc = "runs.retrieve", !.waitTime = NextWait(@)], Log(p))

\* what the newest message of the thread can be: the assistant's text, the
\* assistant's message with something else in it, or no assistant message
NewestMessages == { "text", "image", "none" }

AnswerText == "the answer"

\* the newest message is here, or the request raised
getAssistantResponse_Listed(p) ==
    /\ At(p, "getAssistantResponse", "messages.list")
    /\ UNCHANGED runs
    /\ StorageUnchanged
    /\ ProviderUnchanged
    /\ AssistantUnchanged
    /\ \/ \E newest \in NewestMessages :
              LET listed == Append(Log(p), [ev |-> "messages.list", newest |-> newest])
                  settled(result) ==
                      Settle(p, result,
                             Append(listed, [ev |-> "getAssistantResponse settled",
                                             status |-> Cur(p).runStatus, raised |-> FALSE,
                                             waitTime |-> Cur(p).waitTime]))
              IN  CASE newest = "none" -> settled(Thrown("No assistant response found"))
                    [] newest = "text" -> settled(okResponse(AnswerText))
                    [] OTHER -> settled(okResponse("Received non-text response from assistant"))
       \/ garSettled(p, Thrown("request failed"), TRUE)

Call_getAssistantResponse(p) ==
    \E message \in { "", "question" } :
        Enter(p, "getAssistantResponse", [message |-> message], garFrame(message))

\* up to MaxRuns calls of getAssistantResponse, one after the other
InitResponse ==
    /\ creds = TRUE
    /\ container = {}
    /\ scratchDirs = {}
    /\ scratchFiles = {}
    /\ provFiles = <<>>
    /\ provStores = <<>>
    /\ stack = [p \in Procs |-> <<>>]
    /\ top = [p \in Procs |-> Idle]
    /\ runs = 0
    /\ AssistantQuiet

NextResponse ==
    \/ \E p \in Procs :
           \/ /\ runs < MaxRuns
              /\ top[p].status # "running"
              /\ Call_getAssistantResponse(p)
           \/ getAssistantResponse_Start(p)
           \/ getAssistantResponse_Prepared(p)
           \/ getAssistantResponse_Retrieved(p)
           \/ getAssistantResponse_Slept(p)
           \/ getAssistantResponse_Listed(p)
    \/ RunMoves

\* the steps of a call: the event loop runs every continuation that is
\* ready, every timer fires and every request is answered
ResponseStep ==
    \E p \in Procs :
        \/ getAssistantResponse_Start(p)
        \/ getAssistantResponse_Prepared(p)
        \/ getAssistantResponse_Retrieved(p)
        \/ getAssistantResponse_Slept(p)
        \/ getAssistantResponse_Listed(p)

SpecResponse == InitResponse /\ [][NextResponse]_vars /\ WF_vars(ResponseStep)

---------------------------------------------------------------------------
(* The store builder and the batch partitioner: one call of either,        *)
(* against a provider that holds none of this caller's stores yet.         *)

InitQuiet ==
    /\ creds = TRUE
    /\ container = {}
    /\ scratchDirs = {}
    /\ scratchFiles = {}
    /\ provFiles = <<>>
    /\ provStores = <<>>
    /\ stack = [p \in Procs |-> <<>>]
    /\ top = [p \in Procs |-> Idle]
    /\ runs = 0
    /\ AssistantQuiet

NextBatch ==
    \E p \in Procs :
        \/ /\ runs = 0
           /\ Call_createVectorStoreFromFiles(p)
        \/ /\ runs = 0
           /\ Call_createBatchedVectorStores(p)
        \/ createVectorStoreFromFiles(p)
        \/ createBatchedVectorStores_Split(p)
        \/ createBatchedVectorStores_SplitForever(p)
        \/ createBatchedVectorStores_Batch(p)
        \/ createBatchedVectorStores_Result(p)

\* the event loop runs every continuation that is ready, and every request
\* to the provider is answered
SpecBatchFair == InitQuiet /\ [][NextBatch]_vars /\ WF_vars(NextBatch)

SpecBatch == InitQuiet /\ [][NextBatch]_vars

---------------------------------------------------------------------------
(* The aggregator: up to MaxRuns calls, one after the other, on a          *)
(* container and an environment chosen at the start.                       *)

InitStorage ==
    /\ creds \in BOOLEAN
    /\ container \in SUBSET BlobNames
    /\ scratchDirs = {}
    /\ scratchFiles = {}
    /\ provFiles = <<>>
    /\ provStores = <<>>
    /\ stack = [p \in Procs |-> <<>>]
    /\ top = [p \in Procs |-> Idle]
    /\ runs = 0
    /\ AssistantQuiet

NextUpload ==
    \E p \in Procs :
        \/ /\ runs < MaxRuns
           /\ Call_uploadAllFilesFromConversation(p)
        \/ uploadAllFilesFromConversation_List(p)
        \/ uploadAllFilesFromConversation_Upload(p)
        \/ uploadAllFilesFromConversation_Result(p)
        \/ uploadFileFromStorage_Stage(p)
        \/ uploadFileFromStorage_Opened(p)
        \/ uploadFileFromStorage_Downloaded(p)
        \/ uploadFileFromStorage_Streaming(p)
        \/ uploadFileFromStorage_Uploaded(p)

SpecUpload == InitStorage /\ [][NextUpload]_vars

---------------------------------------------------------------------------
(* One call of the aggregator or of the partitioner, with the credentials  *)
(* set and a container that holds every blob of BlobNames.                 *)

InitSerial ==
    /\ creds = TRUE
    /\ container = BlobNames
    /\ scratchDirs = {}
    /\ scratchFiles = {}
    /\ provFiles = <<>>
    /\ provStores = <<>>
    /\ stack = [p \in Procs |-> <<>>]
    /\ top = [p \in Procs |-> Idle]
    /\ runs = 0
    /\ AssistantQuiet

NextSerial ==
    \E p \in Procs :
        \/ /\ runs = 0
           /\ Call_uploadAllFilesFromConversation(p)
        \/ /\ runs = 0
           /\ Call_createBatchedVectorStores(p)
        \/ uploadAllFilesFromConversation_List(p)
        \/ uploadAllFilesFromConversation_Upload(p)
        \/ uploadAllFilesFromConversation_Result(p)
        \/ uploadFileFromStorage_Stage(p)
        \/ uploadFileFromStorage_Opened(p)
        \/ uploadFileFromStorage_Downloaded(p)
        \/ uploadFileFromStorage_Streaming(p)
        \/ uploadFileFromStorage_Uploaded(p)
        \/ createVectorStoreFromFiles(p)
        \/ createBatchedVectorStores_Split(p)
        \/ createBatchedVectorStores_SplitForever(p)
        \/ createBatchedVectorStores_Batch(p)
        \/ createBatchedVectorStores_Result(p)

SpecSerial == InitSerial /\ [][NextSerial]_vars

---------------------------------------------------------------------------
(* The conversation orchestrators: one call of either.  Conversation "c"   *)
(* holds its marker and two objects, conversation "d" holds nothing.       *)

InitConversation ==
    /\ creds \in BOOLEAN
    /\ container = BlobNames \ { <<"d", "/", "a">> }
    /\ scratchDirs = {}
    /\ scratchFiles = {}
    /\ provFiles = <<>>
    /\ provStores = <<>>
    /\ stack = [p \in Procs |-> <<>>]
    /\ top = [p \in Procs |-> Idle]
    /\ runs = 0
    /\ AssistantQuiet

NextConversation ==
    \E p \in Procs :
        \/ /\ runs = 0
           /\ Call_createVectorStoreFromConversation(p)
        \/ /\ runs = 0
           /\ Call_createBatchedVectorStoresFromConversation(p)
        \/ createVectorStoreFromConversation_Upload(p)
        \/ createVectorStoreFromConversation_Create(p)
        \/ createVectorStoreFromConversation_Result(p)
        \/ createBatchedVectorStoresFromConversation_Upload(p)
        \/ createBatchedVectorStoresFromConversation_Partition(p)
        \/ createBatchedVectorStoresFromConversation_Result(p)
        \/ uploadAllFilesFromConversation_List(p)
        \/ uploadAllFilesFromConversation_Upload(p)
        \/ uploadAllFilesFromConversation_Result(p)
        \/ uploadFileFromStorage_Stage(p)
        \/ uploadFileFromStorage_Opened(p)
        \/ uploadFileFromStorage_Downloaded(p)
        \/ uploadFileFromStorage_Streaming(p)
        \/ uploadFileFromStorage_Uploaded(p)
        \/ createVectorStoreFromFiles(p)
        \/ createBatchedVectorStores_Split(p)
        \/ createBatchedVectorStores_SplitForever(p)
        \/ createBatchedVectorStores_Batch(p)
        \/ createBatchedVectorStores_Result(p)

SpecConversation == InitConversation /\ [][NextConversation]_vars

---------------------------------------------------------------------------
(* The lookup by conversation, against a provider that holds stores of     *)
(* any origin: made for "c", made for "d", with metadata that names no     *)
(* conversation, and with null metadata.                                   *)

\* the most stores the provider holds
MaxStores == 3

\* metadata: null is read as "not defined"
StoreMetas ==
    { UndefinedMeta,
      EmptyMeta,
      WithNum(EmptyMeta, "tag", 7),
      WithNum(WithConv(EmptyMeta, <<"c">>), "createdAt", 1),
      WithNum(WithConv(EmptyMeta, <<"d">>), "createdAt", 1) }

InitProvider ==
    /\ creds = TRUE
    /\ container = {}
    /\ scratchDirs = {}
    /\ scratchFiles = {}
    /\ provFiles = <<>>
    /\ \E metas \in SeqsUpTo(StoreMetas, MaxStores) :
           provStores = [k \in 1..Len(metas) |->
                            [id |-> k, file_ids |-> <<1>>, metadata |-> metas[k]]]
    /\ stack = [p \in Procs |-> <<>>]
    /\ top = [p \in Procs |-> Idle]
    /\ runs = 0
    /\ AssistantQuiet

NextLookup ==
    \E p \in Procs :
        \/ /\ runs < MaxRuns
           /\ Call_getVectorStoresForConversation(p)
        \/ getVectorStoresForConversation(p)

SpecLookup == InitProvider /\ [][NextLookup]_vars

---------------------------------------------------------------------------
(* The lookup by conversation, against a provider that holds about as many *)
(* stores as one page of its listing: from one fewer than ListLimit to     *)
(* MaxBeyond more.  The MaxBeyond oldest stores carry any metadata, the    *)
(* others all the same tag.  One lookup is made.                           *)

MaxBeyond == 2

InitCrowded ==
    /\ creds = TRUE
    /\ container = {}
    /\ scratchDirs = {}
    /\ scratchFiles = {}
    /\ provFiles = <<>>
    /\ \E n \in (ListLimit - 1)..(ListLimit + MaxBeyond) :
       \E old \in [1..MaxBeyond -> StoreMetas] :
       \E tag \in Convs :
           provStores = [k \in 1..n |->
                            [id |-> k, file_ids |-> <<1>>,
                             metadata |-> IF k <= MaxBeyond
                                          THEN old[k]
                                          ELSE WithNum(WithConv(EmptyMeta, tag), "createdAt", 1)]]
    /\ stack = [p \in Procs |-> <<>>]
    /\ top = [p \in Procs |-> Idle]
    /\ runs = 0
    /\ AssistantQuiet

NextCrowded ==
    \E p \in Procs :
        \/ /\ runs = 0
           /\ Call_getVectorStoresForConversation(p)
        \/ getVectorStoresForConversation(p)

SpecCrowded == InitCrowded /\ [][NextCrowded]_vars

---------------------------------------------------------------------------
(* Two requests in flight at once, each with one uploadFileFromStorage     *)
(* call: every await is a point where the other request's code can run.    *)

Requests == {1, 2}

InitRequests ==
    /\ creds \in BOOLEAN
    /\ container = BlobNames
    /\ scratchDirs = {}
    /\ scratchFiles = {}
    /\ provFiles = <<>>
    /\ provStores = <<>>
    /\ stack = [p \in Requests |-> <<>>]
    /\ top = [p \in Requests |-> Idle]
    /\ runs = 0
    /\ AssistantQuiet

NextFiles ==
    \E p \in Requests :
        \/ /\ top[p].status = "idle"
           /\ Call_uploadFileFromStorage(p)
        \/ uploadFileFromStorage_Stage(p)
        \/ uploadFileFromStorage_Opened(p)
        \/ uploadFileFromStorage_Downloaded(p)
        \/ uploadFileFromStorage_Streaming(p)
        \/ uploadFileFromStorage_Uploaded(p)

SpecFiles == InitRequests /\ [][NextFiles]_vars

---------------------------------------------------------------------------
(* Two calls of the aggregator, the second made when the first is over; a  *)
(* caller of its own holds the outcome of each.                            *)

InitTwice ==
    /\ creds = TRUE
    /\ container = BlobNames
    /\ scratchDirs = {}
    /\ scratchFiles = {}
    /\ provFiles = <<>>
    /\ provStores = <<>>
    /\ stack = [p \in Requests |-> <<>>]
    /\ top = [p \in Requests |-> Idle]
    /\ runs = 0
    /\ AssistantQuiet

NextTwice ==
    \E p \in Requests :
        \/ /\ top[p].status = "idle"
           /\ \A q \in Requests : q < p => top[q].status \in {"returned", "threw"}
           /\ Call_uploadAllFilesFromConversation(p)
        \/ uploadAllFilesFromConversation_List(p)
        \/ uploadAllFilesFromConversation_Upload(p)
        \/ uploadAllFilesFromConversation_Result(p)
        \/ uploadFileFromStorage_Stage(p)
        \/ uploadFileFromStorage_Opened(p)
        \/ uploadFileFromStorage_Downloaded(p)
        \/ uploadFileFromStorage_Streaming(p)
        \/ uploadFileFromStorage_Uploaded(p)

SpecTwice == InitTwice /\ [][NextTwice]_vars

---------------------------------------------------------------------------
(* A conversation is turned into stores by request 1, through either       *)
(* orchestrator, and looked up by request 2 once request 1 is over.  The   *)
(* container is that of SpecConversation; the provider starts empty.       *)

InitCreateThenLookup ==
    /\ creds \in BOOLEAN
    /\ container = BlobNames \ { <<"d", "/", "a">> }
    /\ scratchDirs = {}
    /\ scratchFiles = {}
    /\ provFiles = <<>>
    /\ provStores = <<>>
    /\ stack = [p \in Requests |-> <<>>]
    /\ top = [p \in Requests |-> Idle]
    /\ runs = 0
    /\ AssistantQuiet

NextCreateThenLookup ==
    \E p \in Requests :
        \/ /\ p = 1
           /\ top[p].status = "idle"
           /\ Call_createVectorStoreFromConversation(p)
        \/ /\ p = 1
           /\ top[p].status = "idle"
           /\ Call_createBatchedVectorStoresFromConversation(p)
        \/ /\ p = 2
           /\ top[p].status = "idle"
           /\ top[1].status \in {"returned", "threw"}
           /\ Call_getVectorStoresForConversation(p)
        \/ createVectorStoreFromConversation_Upload(p)
        \/ createVectorStoreFromConversation_Create(p)
        \/ createVectorStoreFromConversation_Result(p)
        \/ createBatchedVectorStoresFromConversation_Upload(p)
        \/ createBatchedVectorStoresFromConversation_Partition(p)
        \/ createBatchedVectorStoresFromConversation_Result(p)
        \/ uploadAllFilesFromConversation_List(p)
        \/ uploadAllFilesFromConversation_Upload(p)
        \/ uploadAllFilesFromConversation_Result(p)
        \/ uploadFileFromStorage_Stage(p)
        \/ uploadFileFromStorage_Opened(p)
        \/ uploadFileFromStorage_Downloaded(p)
        \/ uploadFileFromStorage_Streaming(p)
        \/ uploadFileFromStorage_Uploaded(p)
        \/ createVectorStoreFromFiles(p)
        \/ createBatchedVectorStores_Split(p)
        \/ createBatchedVectorStores_SplitForever(p)
        \/ createBatchedVectorStores_Batch(p)
        \/ createBatchedVectorStores_Result(p)
        \/ getVectorStoresForConversation(p)

SpecCreateThenLookup == InitCreateThenLookup /\ [][NextCreateThenLookup]_vars

---------------------------------------------------------------------------
(* Reading the trace of a finished core call. *)

Returned(p, fn) == top[p].fn = fn /\ top[p].status = "returned"

Events(p, ev) == SelectSeq(top[p].log, LAMBDA e : e.ev = ev)

RECURSIVE Flatten(_)
Flatten(ss) == IF ss = <<>> THEN <<>> ELSE Head(ss) \o Flatten(Tail(ss))

\* the slices handed to the Vector Store Builder, in call order
SlicesHanded(p) ==
    [k \in 1..Len(Events(p, "createVectorStoreFromFiles")) |->
        Events(p, "createVectorStoreFromFiles")[k].fileIds.ids]

\* the batchSize in force: the one passed, or the parameter's default
BatchSizeOf(p) ==
    IF top[p].args.batchSize.def THEN top[p].args.batchSize.n ELSE DefaultBatchSize

\* a finished createBatchedVectorStores call on non-empty fileIds and batchSize >= 1
BatchedDone(p) ==
    /\ Returned(p, "createBatchedVectorStores")
    /\ top[p].args.fileIds.def
    /\ top[p].args.fileIds.ids # <<>>
    /\ BatchSizeOf(p) >= 1

CeilDiv(n, d) == (n + d - 1) \div d

---------------------------------------------------------------------------
(* C1: for non-empty fileIds and batchSize >= 1, the slices that           *)
(* createBatchedVectorStores hands to the Vector Store Builder,            *)
(* concatenated in call order, are fileIds itself (order and duplicates    *)
(* kept, nothing left out, nothing twice), and every slice is non-empty    *)
(* and no longer than batchSize.                                           *)
C1_SlicesPartitionFileIds ==
    \A p \in Procs :
        BatchedDone(p) =>
            /\ Flatten(SlicesHanded(p)) = top[p].args.fileIds.ids
            /\ \A k \in 1..Len(SlicesHanded(p)) :
                   /\ Len(SlicesHanded(p)[k]) >= 1
                   /\ Len(SlicesHanded(p)[k]) <= BatchSizeOf(p)

\* a call that split a list holding a duplicate into more than one slice, the last one short
C1_Witness ==
    \E p \in Procs :
        /\ BatchedDone(p)
        /\ top[p].args.fileIds.ids = <<1, 1, 2>>
        /\ BatchSizeOf(p) = 2
        /\ SlicesHanded(p) = << <<1, 1>>, <<2>> >>

(* C2: for fileIds of length N >= 1 and batchSize >= 1 there are exactly   *)
(* ceil(N / batchSize) batches, every batch but the last has batchSize     *)
(* elements and the last has N - batchSize * (batches - 1).                *)
C2_BatchCountAndSizes ==
    \A p \in Procs :
        BatchedDone(p) =>
            LET N == Len(top[p].args.fileIds.ids)
                b == BatchSizeOf(p)
                n == Len(SlicesHanded(p))
            IN  /\ n = CeilDiv(N, b)
                /\ \A k \in 1..(n - 1) : Len(SlicesHanded(p)[k]) = b
                /\ Len(SlicesHanded(p)[n]) = N - b * (n - 1)

\* three file ids in batches of two: sizes 2 and 1
C2_Witness ==
    \E p \in Procs :
        /\ BatchedDone(p)
        /\ Len(top[p].args.fileIds.ids) = 3
        /\ BatchSizeOf(p) = 2
        /\ Len(SlicesHanded(p)) = 2
        /\ Len(SlicesHanded(p)[2]) = 1

(* C3: the i-th store-creation call of createBatchedVectorStores carries   *)
(* batchNumber = i, totalBatches = the number of slices (the same on every *)
(* call, also after a failed batch) and batchSize = the length of its      *)
(* slice, next to the caller's base metadata: every other key of the       *)
(* caller is there with the caller's value, and no further key.            *)
BatchTags == {"batchNumber", "totalBatches", "batchSize"}

C3_BatchMetadataTags ==
    \A p \in Procs :
        BatchedDone(p) =>
            LET calls == Events(p, "vectorStores.create")
                base == top[p].args.metadata
            IN  /\ Len(calls) = Len(SlicesHanded(p))
                /\ \A i \in 1..Len(calls) :
                       LET m == calls[i].req.metadata
                       IN  /\ calls[i].req.file_ids = SlicesHanded(p)[i]
                           /\ m.has = base.has \cup BatchTags
                           /\ m.num["batchNumber"] = i
                           /\ m.num["totalBatches"] = Len(SlicesHanded(p))
                           /\ m.num["batchSize"] = Len(SlicesHanded(p)[i])
                           /\ \A k \in NumKeys \ BatchTags : m.num[k] = base.num[k]
                           /\ m.conversationId = base.conversationId

\* three batches, the second failed, the caller's own tag on each
C3_Witness ==
    \E p \in Procs :
        /\ BatchedDone(p)
        /\ Len(Events(p, "vectorStores.create")) = 3
        /\ ~Events(p, "vectorStores.create")[2].ok
        /\ Events(p, "vectorStores.create")[3].req.metadata.num["batchNumber"] = 3
        /\ Events(p, "vectorStores.create")[3].req.metadata.num["tag"] = 7

(* C4: for non-empty fileIds createBatchedVectorStores returns Ok of the   *)
(* ids of the batches whose store was created, in batch order; a failed    *)
(* batch is skipped, all batches failing gives Ok([]), and no batch        *)
(* failure makes the result Err.                                          *)
CreatedIds(p) ==
    LET won == SelectSeq(Events(p, "vectorStores.create"), LAMBDA e : e.ok)
    IN  [k \in 1..Len(won) |-> won[k].id]

C4_OkOfSucceededBatches ==
    \A p \in Procs :
        ( /\ Returned(p, "createBatchedVectorStores")
          /\ top[p].args.fileIds.def
          /\ top[p].args.fileIds.ids # <<>> )
        => /\ top[p].result.kind = "ok"
           /\ top[p].result.ids = CreatedIds(p)

\* three batches of which the first and the last made a store
C4_Witness ==
    \E p \in Procs :
        /\ BatchedDone(p)
        /\ Len(Events(p, "vectorStores.create")) = 3
        /\ ~Events(p, "vectorStores.create")[2].ok
        /\ top[p].result.ids = <<1, 2>>

---------------------------------------------------------------------------
(* Reading the trace of an aggregator call. *)

\* the objects of a conversation: the names under its prefix that have
\* something after the prefix, without the prefix
Objects(conversationId) ==
    { SubSeq(n, Len(conversationId) + 2, Len(n)) :
        n \in { m \in container : /\ StartsWith(m, conversationId \o <<"/">>)
                                  /\ Len(m) > Len(conversationId) + 1 } }

ListingOk(p) ==
    /\ Events(p, "listBlobsFlat") # <<>>
    /\ Events(p, "listBlobsFlat")[1].ok

\* the file names whose upload was started, in the order of the starts
Attempted(p) ==
    [k \in 1..Len(Events(p, "uploadFileFromStorage")) |->
        Events(p, "uploadFileFromStorage")[k].fileName]

\* the ids of the uploads that came back Ok, in the order they came back
UploadedIds(p) ==
    LET won == SelectSeq(Events(p, "uploadFileFromStorage settled"), LAMBDA e : e.kind = "ok")
    IN  [k \in 1..Len(won) |-> won[k].id]

NoDuplicates(s) == \A i, j \in 1..Len(s) : s[i] = s[j] => i = j
Range(s) == { s[i] : i \in 1..Len(s) }

(* C5: when the listing succeeds with objects o1..on,                      *)
(* uploadAllFilesFromConversation attempts the upload of every object      *)
(* exactly once, whatever happened to the earlier ones, and returns Ok of  *)
(* the ids of the uploads that succeeded; a failed upload neither ends the *)
(* run nor makes the result Err.                                           *)
C5_EveryObjectAttemptedResultOk ==
    \A p \in Procs :
        ( /\ Returned(p, "uploadAllFilesFromConversation")
          /\ ListingOk(p) )
        => /\ NoDuplicates(Attempted(p))
           /\ Range(Attempted(p)) = Objects(top[p].args.conversationId)
           /\ top[p].result.kind = "ok"
           /\ top[p].result.ids = UploadedIds(p)

(* C6: within one uploadAllFilesFromConversation call the uploads are      *)
(* started one at a time in listing order, each only after the one before  *)
(* has come back, and the returned ids are in the listing order of the     *)
(* objects that succeeded; within one createBatchedVectorStores call the   *)
(* store creations are made one at a time in batch order.                  *)
UploadSteps(p) ==
    SelectSeq(top[p].log,
              LAMBDA e : e.ev \in {"uploadFileFromStorage", "uploadFileFromStorage settled"})

StoreSteps(p) ==
    SelectSeq(top[p].log,
              LAMBDA e : e.ev \in {"createVectorStoreFromFiles", "vectorStores.create"})

C6_OneAtATimeInOrder ==
    \A p \in Procs :
        /\ top[p].fn = "uploadAllFilesFromConversation" =>
               LET steps == UploadSteps(p)
                   listing == Sorted(Objects(top[p].args.conversationId))
               IN  /\ \A i \in 1..Len(steps) :
                          IF i % 2 = 1
                          THEN /\ steps[i].ev = "uploadFileFromStorage"
                               /\ (i + 1) \div 2 <= Len(listing)
                               /\ steps[i].fileName = listing[(i + 1) \div 2]
                          ELSE /\ steps[i].ev = "uploadFileFromStorage settled"
                               /\ steps[i].fileName = steps[i - 1].fileName
                   /\ (top[p].status = "returned" /\ top[p].result.kind = "ok")
                          => top[p].result.ids = UploadedIds(p)
        /\ top[p].fn = "createBatchedVectorStores" =>
               LET steps == StoreSteps(p)
                   ids == top[p].args.fileIds.ids
               IN  /\ \A i \in 1..Len(steps) :
                          IF i % 2 = 1
                          THEN steps[i].ev = "createVectorStoreFromFiles"
                          ELSE /\ steps[i].ev = "vectorStores.create"
                               /\ steps[i].req.file_ids = steps[i - 1].fileIds.ids
                   /\ Flatten(SlicesHanded(p)) = SubSeq(ids, 1, Len(Flatten(SlicesHanded(p))))

\* "a" failed, "a/b" was uploaded after it, and the call returned its id alone
C6_Witness ==
    \E p \in Procs :
        /\ Returned(p, "uploadAllFilesFromConversation")
        /\ Attempted(p) = << <<"a">>, <<"a", "/", "b">> >>
        /\ Len(Events(p, "uploadFileFromStorage settled")) = 2
        /\ Events(p, "uploadFileFromStorage settled")[1].kind = "err"
        /\ top[p].result = okIds(<<1>>)

(* C7: if listing the conversation's objects fails (the storage            *)
(* credentials are missing, or the object store raises while listing),     *)
(* uploadAllFilesFromConversation returns Err, and no download and no      *)
(* provider upload is attempted for any object.                            *)
ListingFailed(p) ==
    \/ ~creds
    \/ \E i \in 1..Len(top[p].log) :
           top[p].log[i].ev = "listBlobsFlat" /\ ~top[p].log[i].ok

C7_ListingFailureIsErrWithoutUploads ==
    \A p \in Procs :
        ( /\ top[p].fn = "uploadAllFilesFromConversation"
          /\ ListingFailed(p) )
        => /\ top[p].status = "returned" => top[p].result.kind = "err"
           /\ top[p].status \in {"running", "returned"}
           /\ Events(p, "uploadFileFromStorage") = <<>>
           /\ Events(p, "downloadToFile") = <<>>
           /\ Events(p, "files.create") = <<>>
           /\ Len(stack[p]) <= 1

\* the store raised while listing a conversation that holds objects
C7_Witness ==
    \E p \in Procs :
        /\ Returned(p, "uploadAllFilesFromConversation")
        /\ creds
        /\ Objects(top[p].args.conversationId) # {}
        /\ Events(p, "listBlobsFlat") # <<>>
        /\ ~Events(p, "listBlobsFlat")[1].ok
        /\ top[p].result.kind = "err"

(* C8: uploadAllFilesFromConversation never uploads a listed entry whose   *)
(* name is empty once the prefix conversationId + "/" is taken out; when   *)
(* the listing succeeds and no entry with a non-empty name is left, it     *)
(* returns Ok([]) and has made no upload call.                             *)
C8_EmptyNamesSkipped ==
    \A p \in Procs :
        top[p].fn = "uploadAllFilesFromConversation" =>
            /\ \A k \in 1..Len(Attempted(p)) : Attempted(p)[k] # <<>>
            /\ \A i \in 1..Len(stack[p]) :
                   stack[p][i].fn = "uploadFileFromStorage" => stack[p][i].fileName # <<>>
            /\ ( /\ top[p].status = "returned"
                 /\ ListingOk(p)
                 /\ Objects(top[p].args.conversationId) = {} )
               => /\ top[p].result = okIds(<<>>)
                  /\ Attempted(p) = <<>>
                  /\ Events(p, "files.create") = <<>>

\* a conversation that holds its prefix-only marker and nothing else
C8_Witness ==
    \E p \in Procs :
        /\ Returned(p, "uploadAllFilesFromConversation")
        /\ ListingOk(p)
        /\ top[p].args.conversationId = <<"c">>
        /\ <<"c", "/">> \in container
        /\ Objects(<<"c">>) = {}
        /\ top[p].result = okIds(<<>>)

(* C9: createVectorStoreFromFiles with empty or missing fileIds returns    *)
(* Err and makes no provider call.                                         *)
C9_EmptyFileIdsRejectedLocally ==
    \A p \in Procs :
        ( /\ Returned(p, "createVectorStoreFromFiles")
          /\ (~top[p].args.fileIds.def \/ top[p].args.fileIds.ids = <<>>) )
        => /\ top[p].result.kind = "err"
           /\ top[p].log = <<>>
           /\ provStores = <<>>

\* a finished call with fileIds = []
C9_Witness ==
    \E p \in Procs :
        /\ Returned(p, "createVectorStoreFromFiles")
        /\ top[p].args.fileIds = [def |-> TRUE, ids |-> <<>>]
        /\ top[p].result.kind = "err"

(* C10: createVectorStoreFromFiles with non-empty fileIds issues exactly   *)
(* one store-creation call, carrying all file ids in input order and the   *)
(* given metadata ({} when none is given); it returns Ok of the created    *)
(* store's id when the call succeeds and Err when it fails, and never      *)
(* calls again.                                                            *)
C10_OneStoreCreationCall ==
    \A p \in Procs :
        ( /\ Returned(p, "createVectorStoreFromFiles")
          /\ top[p].args.fileIds.def
          /\ top[p].args.fileIds.ids # <<>> )
        => LET calls == Events(p, "vectorStores.create")
               given == top[p].args.metadata
           IN  /\ Len(top[p].log) = 1
               /\ Len(calls) = 1
               /\ calls[1].req.file_ids = top[p].args.fileIds.ids
               /\ calls[1].req.metadata = (IF given.def THEN given ELSE EmptyMeta)
               /\ calls[1].ok =>
                      /\ top[p].result = okId(calls[1].id)
                      /\ Len(provStores) = 1
                      /\ provStores[1].id = calls[1].id
                      /\ provStores[1].file_ids = top[p].args.fileIds.ids
                      /\ provStores[1].metadata = calls[1].req.metadata
               /\ ~calls[1].ok =>
                      /\ top[p].result.kind = "err"
                      /\ provStores = <<>>

\* a store made from <<2, 1>> with no metadata passed, and a call whose creation failed
C10_Witness ==
    \E p \in Procs :
        /\ Returned(p, "createVectorStoreFromFiles")
        /\ top[p].args.fileIds.ids = <<2, 1>>
        /\ ~top[p].args.metadata.def
        /\ top[p].result = okId(1)
        /\ provStores[1].metadata = EmptyMeta

---------------------------------------------------------------------------
(* Reading the trace of an orchestrator call. *)

Orchestrators ==
    {"createVectorStoreFromConversation", "createBatchedVectorStoresFromConversation"}

\* what the aggregator handed back to the orchestrator
AggregatorSettled(p) == Events(p, "uploadAllFilesFromConversation settled") # <<>>
AggregatorResult(p) == Events(p, "uploadAllFilesFromConversation settled")[1].result

NoStoreCreation(p) ==
    /\ Events(p, "createVectorStoreFromFiles") = <<>>
    /\ Events(p, "createBatchedVectorStores") = <<>>
    /\ Events(p, "vectorStores.create") = <<>>
    /\ provStores = <<>>

(* C11: createVectorStoreFromConversation returns Err ("no files found")   *)
(* and makes no store-creation call whenever the aggregator yields Ok([])  *)
(* (no objects, or every upload failed); when the aggregator yields a      *)
(* non-empty list it calls the Vector Store Builder exactly once, with all *)
(* the returned file ids in their order.                                   *)
C11_NoFilesIsErrElseOneBuilderCall ==
    \A p \in Procs :
        ( /\ Returned(p, "createVectorStoreFromConversation")
          /\ AggregatorSettled(p)
          /\ AggregatorResult(p).kind = "ok" )
        => IF AggregatorResult(p).ids = <<>>
           THEN /\ top[p].result = err("No files found in conversation to create vector store")
                /\ NoStoreCreation(p)
           ELSE /\ Len(Events(p, "createVectorStoreFromFiles")) = 1
                /\ Events(p, "createVectorStoreFromFiles")[1].fileIds.ids = AggregatorResult(p).ids
                /\ Len(Events(p, "vectorStores.create")) = 1
                /\ Events(p, "vectorStores.create")[1].req.file_ids = AggregatorResult(p).ids

\* both objects of "c" were tried, both uploads failed, and the call said "no files"
C11_Witness ==
    \E p \in Procs :
        /\ Returned(p, "createVectorStoreFromConversation")
        /\ Len(Attempted(p)) = 2
        /\ AggregatorResult(p) = okIds(<<>>)
        /\ top[p].result.kind = "err"
        /\ provStores = <<>>

(* C12: createBatchedVectorStoresFromConversation returns Ok([]), not Err, *)
(* and makes no store-creation call whenever the aggregator yields Ok([]); *)
(* this orchestrator never calls createBatchedVectorStores, which errors   *)
(* on an empty list, with an empty list.                                   *)
C12_NoFilesIsOkEmptyWithoutPartitioner ==
    \A p \in Procs :
        top[p].fn = "createBatchedVectorStoresFromConversation" =>
            /\ \A k \in 1..Len(Events(p, "createBatchedVectorStores")) :
                   /\ Events(p, "createBatchedVectorStores")[k].fileIds.def
                   /\ Events(p, "createBatchedVectorStores")[k].fileIds.ids # <<>>
            /\ \A i \in 1..Len(stack[p]) :
                   stack[p][i].fn = "createBatchedVectorStores" =>
                       stack[p][i].fileIds.def /\ stack[p][i].fileIds.ids # <<>>
            /\ ( /\ top[p].status = "returned"
                 /\ AggregatorSettled(p)
                 /\ AggregatorResult(p) = okIds(<<>>) )
               => /\ top[p].result = okIds(<<>>)
                  /\ NoStoreCreation(p)

\* conversation "d", which holds no object: Ok([]) and nothing created
C12_Witness ==
    \E p \in Procs :
        /\ Returned(p, "createBatchedVectorStoresFromConversation")
        /\ top[p].args.conversationId = <<"d">>
        /\ ListingOk(p)
        /\ AggregatorResult(p) = okIds(<<>>)
        /\ top[p].result = okIds(<<>>)
        /\ provStores = <<>>

(* C13: every vector store created through                                 *)
(* createVectorStoreFromConversation or                                    *)
(* createBatchedVectorStoresFromConversation for conversation c carries    *)
(* metadata with conversationId = c and a createdAt stamp, whether the     *)
(* caller passed no metadata, an empty object, or metadata of its own.     *)
StampedFor(metadata, conversationId) ==
    /\ metadata.def
    /\ "conversationId" \in metadata.has
    /\ metadata.conversationId = conversationId
    /\ "createdAt" \in metadata.has

C13_EveryStoreStamped ==
    \A p \in Procs :
        top[p].fn \in Orchestrators =>
            \A i \in 1..Len(provStores) :
                StampedFor(provStores[i].metadata, top[p].args.conversationId)

(* C14: getVectorStoresForConversation(c) returns Ok of exactly the ids,   *)
(* in the order of the provider's listing, of the listed stores whose      *)
(* metadata has conversationId equal to c; a store tagged with another     *)
(* conversation, without a conversationId key, or with null metadata is    *)
(* never returned.                                                         *)
RECURSIVE IdsTaggedWith(_, _)
IdsTaggedWith(listing, c) ==
    IF listing = <<>>
    THEN <<>>
    ELSE LET store == Head(listing)
             tagged == IF store.metadata.def /\ "conversationId" \in store.metadata.has
                       THEN store.metadata.conversationId = c
                       ELSE FALSE
         IN  (IF tagged THEN <<store.id>> ELSE <<>>) \o IdsTaggedWith(Tail(listing), c)

C14_LookupReturnsTaggedStoresInOrder ==
    \A p \in Procs :
        ( /\ Returned(p, "getVectorStoresForConversation")
          /\ Events(p, "vectorStores.list")[1].ok )
        => LET listing == Events(p, "vectorStores.list")[1].data
               c == top[p].args.conversationId
           IN  /\ top[p].result = okIds(IdsTaggedWith(listing, c))
               /\ \A k \in 1..Len(listing) :
                      ( \/ ~listing[k].metadata.def
                        \/ "conversationId" \notin listing[k].metadata.has
                        \/ listing[k].metadata.conversationId # c )
                      => listing[k].id \notin Range(top[p].result.ids)

\* a listing of a store for "d", a store with null metadata and a store for "c"
C14_Witness ==
    \E p \in Procs :
        /\ Returned(p, "getVectorStoresForConversation")
        /\ top[p].args.conversationId = <<"c">>
        /\ Len(provStores) = 3
        /\ provStores[1].metadata.conversationId = <<"c">>
        /\ ~provStores[2].metadata.def
        /\ provStores[3].metadata.conversationId = <<"d">>
        /\ top[p].result = okIds(<<1>>)

(* C15: each core operation (uploadFileFromStorage,                        *)
(* uploadAllFilesFromConversation, createVectorStoreFromFiles,             *)
(* createBatchedVectorStores, getVectorStoresForConversation and the two   *)
(* conversation orchestrators) always resolves to a Result: whatever a     *)
(* collaborator step raises (blob listing, blob download, provider upload, *)
(* store create or list, making the scratch directory, deleting the        *)
(* scratch file) becomes Err, and no call's promise is ever rejected, be   *)
(* it awaited by a caller outside or by another core operation.            *)
C15_NoCallEverRejects ==
    \A p \in DOMAIN stack :
        /\ top[p].status # "threw"
        /\ top[p].result.kind # "throw"
        /\ \A i \in 1..Len(stack[p]) :
               "ret" \in DOMAIN stack[p][i] => stack[p][i].ret.kind # "throw"

(* C16: when uploadFileFromStorage is over, on every exit path (success,   *)
(* download failure, provider-upload failure, missing credentials), the    *)
(* scratch file temp/<fileName> it staged no longer exists.                *)
C16_ScratchFileGoneOnExit ==
    [][ \A p \in DOMAIN stack :
            ( /\ Len(stack[p]) > 0
              /\ Cur(p).fn = "uploadFileFromStorage"
              /\ Len(stack'[p]) < Len(stack[p]) )
            => ~IsFile(scratchFiles', Cur(p).fileName) ]_vars

\* a call whose download broke off after the file was made returned Err, and
\* the file is gone
C16_Witness ==
    \E p \in DOMAIN stack :
        /\ Returned(p, "uploadFileFromStorage")
        /\ Events(p, "blob served") # <<>>
        /\ Events(p, "downloadToFile")[1].e = "downloadToFile failed"
        /\ top[p].result.kind = "err"
        /\ ~IsFile(scratchFiles, top[p].args.fileName)

(* C17: no mutable state is shared between two core calls in flight: in    *)
(* every interleaving of two uploadFileFromStorage calls (two requests for *)
(* different conversations whose objects have the same fileName, say) each *)
(* call uploads the content of its own object, and neither overwrites or   *)
(* deletes a scratch file the other is still downloading to or streaming   *)
(* from.                                                                   *)
C17_CallsInFlightDoNotInterfere ==
    \A p \in DOMAIN stack :
        /\ \A k \in 1..Len(Events(p, "files.create")) :
               Events(p, "files.create")[k].ok =>
                   Events(p, "files.create")[k].content
                       = top[p].args.conversationId \o <<"/">> \o top[p].args.fileName
        /\ ( /\ Len(stack[p]) > 0
             /\ Cur(p).fn = "uploadFileFromStorage" )
           => /\ Cur(p).pc = "writing" => IsFile(scratchFiles, Cur(p).fileName)
              /\ Cur(p).pc \in {"files.create", "uploading"} =>
                     /\ IsFile(scratchFiles, Cur(p).fileName)
                     /\ ContentAt(scratchFiles, Cur(p).fileName)
                            = Cur(p).conversationId \o <<"/">> \o Cur(p).fileName

(* C18: uploadAllFilesFromConversation is not idempotent: two calls on the *)
(* same unchanged conversation with n objects perform 2n provider uploads  *)
(* and, when all succeed, return two lists of n ids that share no id; no   *)
(* id is cached or reused between the calls.  "All succeed" is read as:    *)
(* the listing, every blob download and every provider upload that the     *)
(* object store and the provider were asked for went well.                 *)
CollaboratorsWell(p) ==
    /\ ListingOk(p)
    /\ \A k \in 1..Len(Events(p, "downloadToFile")) :
           Events(p, "downloadToFile")[k].e # "downloadToFile failed"
    /\ \A k \in 1..Len(Events(p, "files.create")) : Events(p, "files.create")[k].ok

C18_SecondCallUploadsEverythingAgain ==
    ( /\ \A p \in DOMAIN stack :
             /\ top[p].fn = "uploadAllFilesFromConversation"
             /\ top[p].status \in {"returned", "threw"}
      /\ \A p, q \in DOMAIN stack : top[p].args.conversationId = top[q].args.conversationId )
    => \A p, q \in DOMAIN stack :
           p < q =>
               LET n == Cardinality(Objects(top[p].args.conversationId))
               IN  /\ (top[p].result.kind = "ok" /\ top[q].result.kind = "ok")
                          => Range(top[p].result.ids) \cap Range(top[q].result.ids) = {}
                   /\ (CollaboratorsWell(p) /\ CollaboratorsWell(q))
                          => /\ Len(Events(p, "files.create")) + Len(Events(q, "files.create")) = 2 * n
                             /\ Len(provFiles) = 2 * n
                             /\ top[p].result.kind = "ok"
                             /\ top[q].result.kind = "ok"
                             /\ Len(top[p].result.ids) = n
                             /\ Len(top[q].result.ids) = n

(* C19: if uploadAllFilesFromConversation returns Err(e), both             *)
(* createVectorStoreFromConversation and                                   *)
(* createBatchedVectorStoresFromConversation return Err with the same      *)
(* error e and make no store-creation call; if the Vector Store Builder    *)
(* returns Err(e), createVectorStoreFromConversation returns Err(e).       *)
BuilderSettled(p) == Events(p, "createVectorStoreFromFiles settled") # <<>>
BuilderResult(p) == Events(p, "createVectorStoreFromFiles settled")[1].result

C19_ErrorsPropagateUnchanged ==
    \A p \in Procs :
        ( /\ top[p].fn \in Orchestrators
          /\ top[p].status = "returned" )
        => /\ (AggregatorSettled(p) /\ AggregatorResult(p).kind = "err")
                  => /\ top[p].result = err(AggregatorResult(p).e)
                     /\ NoStoreCreation(p)
           /\ ( /\ top[p].fn = "createVectorStoreFromConversation"
                /\ BuilderSettled(p)
                /\ BuilderResult(p).kind = "err" )
                  => top[p].result = err(BuilderResult(p).e)

\* the listing of "c" raised under the batched orchestrator, which returned that error
C19_Witness ==
    \E p \in Procs :
        /\ Returned(p, "createBatchedVectorStoresFromConversation")
        /\ top[p].args.conversationId = <<"c">>
        /\ AggregatorResult(p) = err("listBlobsFlat failed")
        /\ top[p].result = err("listBlobsFlat failed")
        /\ provStores = <<>>

(* C20: createBatchedVectorStores called with non-empty fileIds and a      *)
(* non-positive batchSize (0 or negative) is rejected with Err before any  *)
(* provider call is made, and so is a call with empty fileIds: once the    *)
(* call has looked at its arguments it has returned Err, and it has made   *)
(* no store-creation call.                                                 *)
C20_InvalidArgumentsRejectedFirst ==
    \A p \in Procs :
        ( /\ top[p].fn = "createBatchedVectorStores"
          /\ \/ ~top[p].args.fileIds.def
             \/ top[p].args.fileIds.ids = <<>>
             \/ BatchSizeOf(p) <= 0 )
        => /\ Events(p, "createVectorStoreFromFiles") = <<>>
           /\ Events(p, "vectorStores.create") = <<>>
           /\ provStores = <<>>
           /\ (stack[p] = <<>> \/ Cur(p).pc # "start")
                  => /\ top[p].status = "returned"
                     /\ top[p].result.kind = "err"

---------------------------------------------------------------------------
(* The provider's files and stores over a whole orchestrator call.         *)

\* s is still the beginning of t
GrownFrom(s, t) == Len(t) >= Len(s) /\ SubSeq(t, 1, Len(s)) = s

\* a store that this step added is the one its creator asked for
CreatedAsAsked ==
    Len(provStores') > Len(provStores) =>
        \E p \in Procs :
            /\ At(p, "createVectorStoreFromFiles", "start")
            /\ Len(provStores') = Len(provStores) + 1
            /\ provStores'[Len(provStores')].file_ids = Cur(p).fileIds.ids
            /\ Cur(p).metadata.def =>
                   provStores'[Len(provStores')].metadata = Cur(p).metadata

(* C21: no core operation deletes or modifies a provider file or a vector  *)
(* store that exists: over every step of a core call the provider's files  *)
(* and its stores only grow, a store that exists keeps its id, file ids    *)
(* and metadata, and a store that is added has the file ids and the        *)
(* metadata its creation was asked with; the files uploaded before a       *)
(* failed store creation stay.                                             *)
C21_ProviderOnlyGrows ==
    [][ /\ GrownFrom(provFiles, provFiles')
        /\ GrownFrom(provStores, provStores')
        /\ CreatedAsAsked ]_vars

\* an orchestrator call is over with Err of a failed store creation, and
\* the files it had uploaded are still at the provider
C21_Witness ==
    \E p \in Procs :
        /\ top[p].fn = "createVectorStoreFromConversation"
        /\ top[p].status = "returned"
        /\ top[p].result = err("vectorStores.create failed")
        /\ Len(provFiles) = 2
        /\ provStores = <<>>

---------------------------------------------------------------------------
(* The run of createBatchedVectorStores to its end. *)

\* a createBatchedVectorStores call on non-empty fileIds and batchSize >= 1
BatchedValid(p) ==
    /\ top[p].fn = "createBatchedVectorStores"
    /\ top[p].args.fileIds.def
    /\ top[p].args.fileIds.ids # <<>>
    /\ BatchSizeOf(p) >= 1

\* the file ids of the store creations attempted so far, in order
StoresAttempted(p) ==
    [k \in 1..Len(Events(p, "vectorStores.create")) |->
        Events(p, "vectorStores.create")[k].req.file_ids]

(* C22: for non-empty fileIds and an integer batchSize >= 1,               *)
(* createBatchedVectorStores terminates, after attempting a store creation *)
(* exactly once for every batch, in batch order: at every moment the       *)
(* creations attempted are the first batches of the split, each once, a    *)
(* failed one included and followed by the next; at the return they are    *)
(* all the batches; and every such call returns.                           *)
C22_TerminatesAfterOneAttemptPerBatch ==
    /\ [](\A p \in Procs :
            BatchedValid(p) =>
                LET all == Batches(top[p].args.fileIds.ids, BatchSizeOf(p))
                IN  /\ GrownFrom(StoresAttempted(p), all)
                    /\ top[p].status = "returned" => StoresAttempted(p) = all
                    /\ top[p].status # "threw")
    /\ \A p \in Procs : BatchedValid(p) ~> top[p].status = "returned"

\* three batches, the first of which failed, and the call has returned
C22_Witness ==
    \E p \in Procs :
        /\ BatchedValid(p)
        /\ top[p].status = "returned"
        /\ Len(StoresAttempted(p)) = 3
        /\ ~Events(p, "vectorStores.create")[1].ok
        /\ Events(p, "vectorStores.create")[2].ok
        /\ Events(p, "vectorStores.create")[3].ok

---------------------------------------------------------------------------
(* The lookup when the provider holds more stores than one page. *)

StoreIds(listing) == { listing[k].id : k \in 1..Len(listing) }

---------------------------------------------------------------------------
(* The tags of the stores a batched orchestrator call creates. *)

ComputedTags == BatchTags \cup {"conversationId", "createdAt"}

\* what the partitioner was handed by the orchestrator
PartitionerCall(p) == Events(p, "createBatchedVectorStores")[1]

(* C26: computed tags always win over the caller's metadata.  Of every     *)
(* store creation a createBatchedVectorStoresFromConversation(c, b, m)     *)
(* call asks for, the metadata has batchNumber = the batch's place,        *)
(* totalBatches = the number of batches and batchSize = the length of the  *)
(* batch, whatever batchNumber, totalBatches and batchSize createBatched-  *)
(* VectorStores was handed; it has conversationId = c and a createdAt read *)
(* from the clock, whatever conversationId and createdAt m has; and every  *)
(* other key of m is there unchanged, and no further key.                  *)
C26_ComputedTagsWin ==
    \A p \in Procs :
        top[p].fn = "createBatchedVectorStoresFromConversation" =>
            LET calls == Events(p, "vectorStores.create")
                caller == OrEmpty(top[p].args.metadata)
            IN  \A i \in 1..Len(calls) :
                    LET m == calls[i].req.metadata
                        handed == PartitionerCall(p)
                        batches == Batches(handed.fileIds.ids, handed.batchSize)
                    IN  /\ m.def
                        /\ m.has = caller.has \cup ComputedTags
                        /\ m.num["batchNumber"] = i
                        /\ m.num["totalBatches"] = Len(batches)
                        /\ m.num["batchSize"] = Len(batches[i])
                        /\ calls[i].req.file_ids = batches[i]
                        /\ m.conversationId = top[p].args.conversationId
                        /\ m.num["createdAt"] \in Times
                        /\ m.num["createdAt"] = handed.metadata.num["createdAt"]
                        /\ \A k \in NumKeys \ ComputedTags : m.num[k] = caller.num[k]

\* the caller's metadata names another conversation, a creation time, and a
\* batchNumber, totalBatches and batchSize of its own, next to a tag; the
\* second store is created with the computed values and with the tag
C26_Witness ==
    \E p \in Procs :
        /\ top[p].fn = "createBatchedVectorStoresFromConversation"
        /\ top[p].args.conversationId = <<"c">>
        /\ top[p].args.metadata.conversationId = <<"d">>
        /\ top[p].args.metadata.num["createdAt"] = 9
        /\ top[p].args.metadata.num["batchNumber"] = 9
        /\ top[p].args.metadata.num["totalBatches"] = 9
        /\ top[p].args.metadata.num["batchSize"] = 9
        /\ Len(Events(p, "vectorStores.create")) = 2
        /\ Events(p, "vectorStores.create")[2].ok
        /\ provStores[Len(provStores)].metadata.conversationId = <<"c">>
        /\ provStores[Len(provStores)].metadata.num["createdAt"] \in Times
        /\ provStores[Len(provStores)].metadata.num["batchNumber"] = 2
        /\ provStores[Len(provStores)].metadata.num["totalBatches"] = 2
        /\ provStores[Len(provStores)].metadata.num["batchSize"] = 1
        /\ provStores[Len(provStores)].metadata.num["tag"] = 7

---------------------------------------------------------------------------
(* The lookup after the creation. *)

\* the ids an orchestrator call returned: the one store, or the batches'
IdsReturned(p) ==
    IF top[p].fn = "createVectorStoreFromConversation"
    THEN { top[p].result.id }
    ELSE Range(top[p].result.ids)

(* C25: when the provider holds at most 100 stores, after                  *)
(* createVectorStoreFromConversation(c, m) has returned Ok(v), or          *)
(* createBatchedVectorStoresFromConversation(c, b, m) has returned Ok(S),  *)
(* a later getVectorStoresForConversation(c) that gets its listing returns *)
(* a list that contains v, or every id of S, for every metadata m of the   *)
(* caller, an empty object and no metadata included.                       *)
C25_CreatedStoresAreFound ==
    ( /\ top[1].fn \in Orchestrators
      /\ top[1].status = "returned"
      /\ top[1].result.kind = "ok"
      /\ Returned(2, "getVectorStoresForConversation")
      /\ top[2].args.conversationId = top[1].args.conversationId
      /\ top[2].result.kind = "ok" )
    => IdsReturned(1) \subseteq Range(top[2].result.ids)

---------------------------------------------------------------------------
(* The batchSize that gets past the two batched endpoints. *)

\* a string that is a whole number, with or without a sign
IsNumeral(s) ==
    LET rest == IF s # <<>> /\ Head(s) \in {"-", "+"} THEN Tail(s) ELSE s
    IN  rest # <<>> /\ \A k \in 1..Len(rest) : IsDigit(rest[k])

\* batchSize is there, and is neither a number nor the numeral of one
NonNumeric(v) ==
    \/ v.type = "null"
    \/ v.type = "string" /\ ~IsNumeral(v.s)

\* batchSize is a number, or the numeral of one, that is 0 or less
NonPositive(v) ==
    \/ v.type = "number" /\ v.n <= 0
    \/ v.type = "string" /\ IsNumeral(v.s) /\ ParseIntOfString(v.s).n <= 0

\* the calls of the service a request has made
ServiceCalls(p) ==
    Events(p, "createBatchedVectorStores") \o Events(p, "createBatchedVectorStoresFromConversation")

(* C24: the two batched HTTP endpoints never invoke the service with a     *)
(* batchSize that is not a positive integer: a request whose batchSize is  *)
(* non-positive or non-numeric makes no service call and is answered with  *)
(* HTTP 400, and for a request without batchSize the service is called     *)
(* with 20.                                                                *)
C24_OnlyPositiveBatchSizeReachesService ==
    \A p \in Procs :
        top[p].fn \in BatchedEndpoints =>
            /\ \A k \in 1..Len(ServiceCalls(p)) : ServiceCalls(p)[k].batchSize >= 1
            /\ (NonPositive(top[p].args.batchSize) \/ NonNumeric(top[p].args.batchSize))
                   => /\ ServiceCalls(p) = <<>>
                      /\ top[p].status = "returned" => top[p].result.id = 400
            /\ top[p].args.batchSize = Undefined
                   => \A k \in 1..Len(ServiceCalls(p)) : ServiceCalls(p)[k].batchSize = 20

---------------------------------------------------------------------------
(* The assistants and the cache over the calls of getOrCreateAssistant. *)

\* the call of p has returned Ok for the name
GotAssistant(p, name) ==
    /\ Returned(p, "getOrCreateAssistant")
    /\ top[p].args.name = name
    /\ top[p].result.kind = "ok"

\* the assistants of the name at the provider
AssistantsNamed(name) == { k \in 1..Len(provAssistants) : provAssistants[k].name = name }

(* C27: across every interleaving of concurrent getOrCreateAssistant calls *)
(* with the same name, not yet cached and not yet at the provider, at most *)
(* one assistant with that name is created at the provider, and all the    *)
(* calls return the same assistant id.                                     *)
C27_OneAssistantPerName ==
    \A name \in AssistantNames :
        /\ Cardinality(AssistantsNamed(name)) <= 1
        /\ \A p, q \in DOMAIN top :
               GotAssistant(p, name) /\ GotAssistant(q, name)
                   => top[p].result.id = top[q].result.id

\* the entry of a name is that of an assistant with this name at the provider
CacheEntriesAreAssistants ==
    \A entry \in assistantCache :
        \E k \in AssistantsNamed(entry.name) : provAssistants[k].id = entry.id

(* C28: once getOrCreateAssistant(name, ...) has returned Ok(id), every    *)
(* later call with the same name returns Ok(id) without a list or create   *)
(* call to the provider, whatever instructions and fileIds it passes (here *)
(* the later call is that of caller 3, made after caller 1's is over); a   *)
(* cache entry is only written on a successful find or create, never on an *)
(* error path, and is never removed or replaced.                           *)
C28_CachedAssistantIsKept ==
    /\ []( ( GotAssistant(1, top[1].args.name)
             /\ top[3].fn = "getOrCreateAssistant"
             /\ top[3].args.name = top[1].args.name )
           => /\ Events(3, "assistants.list") = <<>>
              /\ Events(3, "assistants.create") = <<>>
              /\ top[3].status = "returned" => top[3].result = top[1].result )
    /\ []CacheEntriesAreAssistants
    /\ [][ /\ assistantCache \subseteq assistantCache'
           /\ \A entry \in assistantCache' \ assistantCache :
                  \E p \in DOMAIN top :
                      /\ top'[p].status = "returned"
                      /\ top'[p].result = okId(entry.id)
                      /\ top[p].args.name = entry.name ]_vars

---------------------------------------------------------------------------
(* The end of a runAssistant call. *)

StillRunning == {"queued", "in_progress", "requires_action"}

\* the call's last look at the run, as it ended
LastLook(p) == Events(p, "runAssistant settled")[1]

(* C29: runAssistant returns Ok(true) only if the last polled run status   *)
(* is "completed"; it returns Err(TIMEOUT) only when the status is still   *)
(* queued, in_progress or requires_action after the deadline has passed    *)
(* (settings.timeout, or three minutes, after the first retrieve); every   *)
(* other final status and every exception yields Err(ASSISTANT_ERROR), so  *)
(* the call never rejects; and it never polls again after observing a      *)
(* status outside queued/in_progress/requires_action.                      *)
C29_RunAssistantOutcomes ==
    \A p \in Procs :
        top[p].fn = "runAssistant" =>
            /\ top[p].status # "threw"
            /\ \A k \in 1..Len(stack[p]) :
                   stack[p][k].pc \in {"sleeping", "runs.retrieve"}
                       => stack[p][k].runStatus \in StillRunning
            /\ top[p].status = "returned" =>
                   LET last == LastLook(p)
                       deadline == IF top[p].args.timeout.def
                                   THEN top[p].args.timeout.n
                                   ELSE 180000
                   IN  /\ top[p].result \in {okTrue, err("TIMEOUT"), err("ASSISTANT_ERROR")}
                       /\ top[p].result = okTrue
                              => ~last.raised /\ last.status = "completed"
                       /\ top[p].result = err("TIMEOUT")
                              => /\ ~last.raised
                                 /\ last.status \in StillRunning
                                 /\ last.now - last.startTime > deadline
                       /\ (last.raised \/ last.status \notin StillRunning \cup {"completed"})
                              => top[p].result = err("ASSISTANT_ERROR")

\* with no timeout set, the run still asks for an action after three
\* minutes of polling: TIMEOUT
C29_Witness ==
    \E p \in Procs :
        /\ Returned(p, "runAssistant")
        /\ ~top[p].args.timeout.def
        /\ top[p].result = err("TIMEOUT")
        /\ LastLook(p).status = "requires_action"
        /\ LastLook(p).now - LastLook(p).startTime > 180000

---------------------------------------------------------------------------
(* The polling loop of getAssistantResponse. *)

RunOver == {"completed", "failed", "cancelled", "expired"}

\* the call is over, by a return or by a throw
Finished(p) == top[p].status \in {"returned", "threw"}

\* the call's last look at the run, as it ended
LastStatus(p) == Events(p, "getAssistantResponse settled")[1]

\* the call has its run and has not ended
Polls(p) ==
    /\ top[p].fn = "getAssistantResponse"
    /\ Len(stack[p]) > 0
    /\ Cur(p).pc \in {"runs.retrieve", "sleeping", "messages.list"}

=============================================================================
